---- MODULE Spec2Model ----
(***************************************************************************)
(* Keyshare server of irmago: the HTTP handlers of the keyshare protocol   *)
(* (register, verify pin, change pin, isAuthorized, getCommitments,        *)
(* getResponse), the session cache with its sweeper, and the keyshare core *)
(* and the stores the handlers call.                                       *)
(*                                                                         *)
(* Every HTTP request runs in a slot of `req`.  A handler is cut into      *)
(* steps where another request's access to the same shared state (a row of *)
(* the user store, the commitment store, the session cache) can come in    *)
(* between and change the outcome; accesses that commute with every step   *)
(* of the other requests are part of the step before or after them.  A     *)
(* slot records the calls its request made, in order, in `calls`, and the  *)
(* HTTP reply in `reply`.  A reply is written as the last act of a         *)
(* handler: the state in which a slot shows it (pc = "done") is followed   *)
(* by Finish, which ends the request.                                      *)
(***************************************************************************)
EXTENDS Integers, Sequences, FiniteSets, TLC

\* ------------------------------------------------------------------ bounds
MaxTicks == 2        \* the clock stops after this many steps
MaxNonce == 2        \* blobs encrypted in one run (registrations + pin changes)
MaxCommits == 2      \* commitments generated in one run
MaxBearer == 2       \* leading "Bearer " of an Authorization header

\* ------------------------------------------------------- program constants
JWTPinExpiryDefault == 300
ConfJWTPinExpiry == 10  \* Configuration.JWTPinExpiry of the deployment modelled
SessionExpirySeconds == 10
\* Backoff of the user store's pincheck bookkeeping, and the pin length cap.
PinBackoff == 60
MaxPinLen == 6

JWTIssuerDefault == "keyshare_server"
ConfJWTIssuer == ""

Reqs == {1, 2}       \* request slots: requests in flight at once
Usernames == <<"u1", "u2">>
Pins == {"12345", "54321"}
LongPin == "1234567"
Bodies == {"ok", "malformed"}
PinBudgets == {1, 3}

VARIABLES
  now,              \* wall clock, seconds
  db,               \* user store: username -> row
  maxPinTries,      \* user store: the pincheck budget it is configured with
  dbFails,          \* whether the collaborators (stores, mailer, session server) may fail
  emailServer,      \* Configuration.EmailServer ("" when no mail server is configured)
  decryptionKeys,   \* Core.decryptionKeys
  decryptionKey,    \* Core.decryptionKey
  decryptionKeyID,  \* Core.decryptionKeyID
  trustedKeys,      \* Core.trustedKeys (the identifiers; PublicKeyOf gives the key)
  reload,           \* the key LoadIdemixKeys is writing into trustedKeys ("" when
                    \*   the callback is not inside DangerousAddTrustedPublicKey)
  issued,           \* the JWT the client holds: the last one it kept of those
                    \*   the verifyPin replies gave it (empty when none)
  nonces,           \* AES-GCM nonces drawn so far
  commitments,      \* commitment store: commitID -> scalar
  commitIDs,        \* commit IDs drawn so far
  sessions,         \* Server.sessions: username -> address of a SessionData
  heap,             \* the SessionData objects: address -> fields
  sessionLock,      \* Server.sessionLock: 0 when free, else the slot that holds it
  req,              \* the requests in flight
  \* history, read by no action's guard:
  pinOf,            \* username -> the pin set by register or the last changePin
  prevPin,          \* username -> the pin the last successful changePin replaced
  grants,           \* username -> reservations granted at this clock value since
                    \*   the last ClearPincheck
  ladder,           \* username -> how far the run has followed the lockout ladder
  responded,        \* commitID -> number of GenerateResponse calls that succeeded
  commitBy,         \* commitID -> the user and the JWT of the getCommitments behind it
  \* the credential manager of the client (irmago) and its storage directory:
  files,            \* storagePath: file name -> content (a sequence of tokens)
  save,             \* the saveFile call in progress
  cm,               \* the CredentialManager under construction: position, cm.updates
  executed,         \* history: index -> times credentialManagerUpdates[index] has run
  \* the session server (servercore) the keyshare server starts sessions at:
  irmaSessions,     \* Server.sessions: requestor token -> session
  handlers,         \* Server.handlers: key -> handler
  invoked           \* history: requestor token -> times its handler has been started

vars == <<now, db, maxPinTries, dbFails, emailServer, decryptionKeys, decryptionKey,
          decryptionKeyID, trustedKeys, reload, issued, nonces, commitments, commitIDs,
          sessions, heap, sessionLock, req, pinOf, prevPin, grants, ladder,
          responded,
          commitBy, files, save, cm, executed, irmaSessions, handlers, invoked>>

coreKeys == <<decryptionKeys, decryptionKey, decryptionKeyID, trustedKeys, reload>>

\* CredentialManager and its storage; servercore's Server.
managerVars == <<files, save, cm, executed>>
sessionVars == <<irmaSessions, handlers, invoked>>
proveVars == <<commitments, commitIDs, responded, commitBy, sessions, heap, sessionLock>>
pinHistory == <<pinOf, prevPin, grants, ladder>>

Min(a, b) == IF a < b THEN a ELSE b

RECURSIVE Pow(_, _)
Pow(b, e) == IF e = 0 THEN 1 ELSE b * Pow(b, e - 1)

\* ------------------------------------------------------------ the core
\* NewKeyshareCore: the issuer and the pin expiry fall back to the defaults.
jwtIssuer == IF ConfJWTIssuer = "" THEN JWTIssuerDefault ELSE ConfJWTIssuer
jwtPinExpiry == IF ConfJWTPinExpiry = 0 THEN JWTPinExpiryDefault ELSE ConfJWTPinExpiry

\* pinHash = H(pin, salt): a one-way tag of the pin.
Hash(pin) == <<"H", pin>>

\* The user secret blob [keyID][nonce][AES-GCM{pinHash, keyshareSecret}];
\* `key` is the AES key the ciphertext was made with.
NoBlob == [keyID |-> 0, key |-> "", nonce |-> 0, pinHash |-> Hash(""), secret |-> 0]

Encrypt(pin, secret, nonce) ==
  [keyID |-> decryptionKeyID, key |-> decryptionKey, nonce |-> nonce,
   pinHash |-> Hash(pin), secret |-> secret]

\* Decryption finds the key by the blob's key ID; it authenticates only
\* under the key the blob was made with.
CanDecrypt(blob) ==
  /\ blob.keyID \in DOMAIN decryptionKeys
  /\ decryptionKeys[blob.keyID] = blob.key

\* token_id: computed from the blob's content.
TokenID(blob) == <<"T", blob.keyID, blob.nonce, blob.pinHash>>

NoJWT == [sub |-> "", iss |-> "", iat |-> 0, exp |-> 0, tid |-> TokenID(NoBlob), sig |-> "none"]

SignJWT(username, blob, t) ==
  [sub |-> username, iss |-> jwtIssuer, iat |-> t, exp |-> t + jwtPinExpiry,
   tid |-> TokenID(blob), sig |-> "server"]

\* A token a client fabricates from one it has seen: same claims, a longer
\* life, not signed by the server.
Forge(jwt) == [jwt EXCEPT !.exp = @ + JWTPinExpiryDefault, !.sig = "forged"]

\* Core.ValidatePin
ValidatePin(blob, pin, username, t) ==
  IF ~CanDecrypt(blob) THEN [err |-> "InvalidKey", jwt |-> NoJWT]
  ELSE IF Hash(pin) # blob.pinHash THEN [err |-> "InvalidPin", jwt |-> NoJWT]
  ELSE [err |-> "nil", jwt |-> SignJWT(username, blob, t)]

\* Core.ValidateJWT
ValidateJWT(blob, jwt, t) ==
  IF /\ jwt.sig = "server"
     /\ jwt.iss = jwtIssuer
     /\ t <= jwt.exp
     /\ jwt.tid = TokenID(blob)
  THEN "nil" ELSE "InvalidJWT"

\* Core.GenerateKeyshareSecret
GenerateKeyshareSecret(pin, secret, nonce) ==
  IF Len(pin) > MaxPinLen THEN [err |-> "PinTooLong", blob |-> NoBlob]
  ELSE [err |-> "nil", blob |-> Encrypt(pin, secret, nonce)]

\* Core.ChangePin
ChangePin(blob, oldPin, newPin, nonce) ==
  IF Len(newPin) > MaxPinLen THEN [err |-> "PinTooLong", blob |-> NoBlob]
  ELSE IF ~CanDecrypt(blob) THEN [err |-> "InvalidKey", blob |-> NoBlob]
  ELSE IF Hash(oldPin) # blob.pinHash THEN [err |-> "InvalidPin", blob |-> NoBlob]
  ELSE [err |-> "nil", blob |-> Encrypt(newPin, blob.secret, nonce)]

\* The issuer public keys of the configuration: modulus n and base S.
PublicKeyOf(k) == IF k = "k1" THEN [n |-> 7, S |-> 3] ELSE [n |-> 11, S |-> 2]

\* W_i = S_i^w mod n_i
PCommit(k, w) == Pow(PublicKeyOf(k).S, w) % PublicKeyOf(k).n

EmptyCommitments == [k \in {} |-> 0]

\* Core.GenerateCommitments, given the scalar w and the commit ID it draws
\* and whether StoreCommitment works: the JWT is validated first, then the keys.
GenerateCommitments(blob, jwt, keys, w, id, t, storeOk) ==
  LET none == [err |-> "nil", commitments |-> EmptyCommitments, commitID |-> 0]
  IN IF ValidateJWT(blob, jwt, t) # "nil" THEN [none EXCEPT !.err = "InvalidJWT"]
     ELSE IF Len(keys) = 0 \/ \E i \in 1 .. Len(keys) : keys[i] \notin trustedKeys
     THEN [none EXCEPT !.err = "UnknownKey"]
     ELSE IF ~storeOk THEN [none EXCEPT !.err = "StoreCommitment"]
     ELSE [err |-> "nil",
           commitments |-> [k \in {keys[i] : i \in 1 .. Len(keys)} |-> PCommit(k, w)],
           commitID |-> id]

\* CommitmentStore.ConsumeCommitment taking nothing out of the store.
ConsumeCommitmentPeek(store, id) ==
  IF id \in DOMAIN store
  THEN [found |-> TRUE, w |-> store[id], store |-> store]
  ELSE [found |-> FALSE, w |-> 0, store |-> store]

\* CommitmentStore.ConsumeCommitment: the atomic take.
ConsumeCommitment(store, id) ==
  IF id \in DOMAIN store
  THEN [found |-> TRUE, w |-> store[id],
        store |-> [c \in DOMAIN store \ {id} |-> store[c]]]
  ELSE [found |-> FALSE, w |-> 0, store |-> store]

\* Core.GenerateResponse: validate the JWT, take the commitment, decrypt the
\* blob, check the key, compute w + challenge * s.
GenerateResponse(blob, jwt, id, challenge, keyID, t) ==
  LET take == ConsumeCommitment(commitments, id)
      fail(e, st) == [err |-> e, response |-> -1, store |-> st]
  IN IF ValidateJWT(blob, jwt, t) # "nil" THEN fail("InvalidJWT", commitments)
     ELSE IF ~take.found THEN fail("InvalidCommit", commitments)
     ELSE IF ~CanDecrypt(blob) THEN fail("InvalidKey", take.store)
     ELSE IF keyID \notin trustedKeys THEN fail("UnknownKey", take.store)
     ELSE [err |-> "nil", response |-> take.w + challenge * blob.secret,
           store |-> take.store]

\* ------------------------------------------------------- the user store
NoUser == [exists |-> FALSE, coredata |-> NoBlob, lastSeen |-> 0,
           pincheckCount |-> 0, pincheckBlockedUntil |-> 0]

\* UserStore.NewUser
NewRow(blob) == [NoUser EXCEPT !.exists = TRUE, !.coredata = blob]

\* UserStore.ReservePincheck, one atomic read-modify-write of the row: refuses
\* while the row is blocked and tells the wait of the budget; else takes one
\* try of the budget, and with the last one blocks the row for the backoff.
ReservePincheck(row, t) ==
  IF t < row.pincheckBlockedUntil
  THEN [allowed |-> FALSE, tries |-> 0, wait |-> PinBackoff,
        row |-> row]
  ELSE LET c == Min(row.pincheckCount + 1, maxPinTries)
           blocked == (c = maxPinTries)
       IN [allowed |-> TRUE, tries |-> maxPinTries - c,
           wait |-> IF blocked THEN PinBackoff ELSE 0,
           row |-> [row EXCEPT !.pincheckCount = c,
                               !.pincheckBlockedUntil =
                                  IF blocked THEN t + PinBackoff ELSE @]]

\* UserStore.ClearPincheck
ClearPincheck(row) == [row EXCEPT !.pincheckCount = 0, !.pincheckBlockedUntil = 0]

\* UserStore.SetSeen
SetSeen(row, t) == [row EXCEPT !.lastSeen = t]

\* UserStore.UpdateUser: writes the user data (the blob), not the pincheck state.
UpdateUser(row, blob) == [row EXCEPT !.coredata = blob]

\* What a call of a collaborator can come to: TRUE is success.
StoreOutcomes == IF dbFails THEN {TRUE, FALSE} ELSE {TRUE}

\* ------------------------------------------------------------- requests
NoReply == [code |-> "", status |-> "", message |-> "", jwt |-> NoJWT,
            candidates |-> <<>>, commitments |-> EmptyCommitments, response |-> -1]

\* server.WriteError
ErrorReply(e, msg) == [NoReply EXCEPT !.code = e, !.message = msg]

\* server.WriteJson of a keysharePinStatus / keyshareAuthorization
StatusReply(st, msg) == [NoReply EXCEPT !.code = "ok", !.status = st, !.message = msg]

\* An Authorization header: the number of leading "Bearer " it carries and
\* the text after them.  NoHeader is the header that was not sent.
NoHeader == [bearer |-> 0, token |-> NoJWT]

IdleReq ==
  [kind |-> "", pc |-> "idle", username |-> "", blob |-> NoBlob, pin |-> "",
   newPin |-> "", auth |-> NoJWT, valid |-> FALSE, keys |-> <<>>, challenge |-> 0,
   reserved |-> "", tries |-> 0, wait |-> 0, at |-> 0, truePin |-> "", rung |-> 0,
   commitID |-> 0, sess |-> 0, keyID |-> "", found |-> FALSE, body |-> "",
   held |-> FALSE, prev |-> "", header |-> NoHeader, authorization |-> NoHeader,
   email |-> <<>>, issuing |-> "",
   calls |-> <<>>, reply |-> NoReply]

\* A reply has been written and its request not yet ended, or the process
\* has been aborted by the runtime inside a request.
Replying == \E r \in Reqs : req[r].pc \in {"done", "fatal"}

\* A new request takes the lowest free slot.
Free(r) ==
  /\ ~Replying
  /\ req[r].pc = "idle"
  /\ \A o \in Reqs : o < r => req[o].pc # "idle"

At(r, kind, pc) == ~Replying /\ req[r].kind = kind /\ req[r].pc = pc

Done(q, reply) == [q EXCEPT !.pc = "done", !.reply = reply]

PinKinds == {"verifyPin", "changePin"}

Called(q, name) == \E i \in 1 .. Len(q.calls) : q.calls[i] = name

\* Another pin request for the same user is under way.
Contended(r, username) ==
  \E o \in Reqs \ {r} : /\ req[o].pc \notin {"idle", "done"}
                        /\ req[o].kind \in PinKinds
                        /\ req[o].username = username

\* UserStore.AddLog: the entry of the request's calls for a log call.
AddLog(kind, ok) == IF ok THEN "AddLog:" \o kind ELSE "AddLog:" \o kind \o ":error"

\* ------------------------------------------------ the lockout ladder (history)
\* ladder[u].stage: 0 after the registration of u; k in 1..3 after k
\* consecutive pin checks with a wrong pin, one at a time; 4 after a verifyPin
\* with the right pin during the wait that began at ladder[u].t; 5 after a
\* verifyPin with the right pin once the wait is over (6 when no attempt was
\* made during the wait); -1 when the run has left the ladder.  mix counts
\* the changePin requests among the wrong attempts.
LadderOff == [stage |-> -1, t |-> 0, mix |-> 0]
LadderStart == [stage |-> 0, t |-> 0, mix |-> 0]

LadderStep(l, kind, correct, t) ==
  IF l.stage \in 0 .. 2 /\ ~correct
  THEN [stage |-> l.stage + 1, t |-> IF l.stage = 2 THEN t ELSE 0,
        mix |-> IF kind = "changePin" THEN l.mix + 1 ELSE l.mix]
  ELSE IF l.stage \in {3, 4} /\ correct /\ kind = "verifyPin"
  THEN IF t < l.t + PinBackoff THEN [l EXCEPT !.stage = 4]
       ELSE [l EXCEPT !.stage = IF l.stage = 4 THEN 5 ELSE 6]
  ELSE LadderOff

\* -------------------------------------------------------------- the clock
Tick(step) ==
  /\ ~Replying
  /\ now + step <= MaxTicks * step
  /\ now' = now + step
  /\ grants' = [u \in DOMAIN grants |-> 0]
  /\ UNCHANGED <<db, maxPinTries, dbFails, emailServer, managerVars, sessionVars, coreKeys, issued, nonces, proveVars,
                 req, pinOf, prevPin, ladder>>

\* The reply has gone out and the client drops it.
Finish(r) ==
  /\ req[r].pc = "done"
  /\ req' = [req EXCEPT ![r] = IdleReq]
  /\ UNCHANGED <<now, db, maxPinTries, dbFails, emailServer, managerVars, sessionVars, coreKeys, issued, nonces,
                 proveVars, pinHistory>>

\* The reply of a verifyPin has gone out and the client keeps its JWT in
\* place of the one it held.
Keep(r) ==
  /\ req[r].pc = "done"
  /\ req[r].reply.jwt # NoJWT
  /\ req[r].reply.jwt \notin issued
  /\ issued' = {req[r].reply.jwt}
  /\ req' = [req EXCEPT ![r] = IdleReq]
  /\ UNCHANGED <<now, db, maxPinTries, dbFails, emailServer, managerVars, sessionVars, coreKeys, nonces, proveVars,
                 pinHistory>>

UserOf(username) == IF username \in DOMAIN db THEN db[username] ELSE NoUser

\* ---------------------------------------------------------- /client/register
\* handleRegister answering a pin that is too long as an internal error.
RegistrationAllInternal(g, newOk, email, mailOk, sessOk) ==
  IF g.err # "nil" THEN ErrorReply("Internal", g.err)
  ELSE IF ~newOk THEN ErrorReply("Internal", "NewUser")
  ELSE IF email /\ ~mailOk THEN ErrorReply("Internal", "email")
  ELSE IF ~sessOk THEN ErrorReply("Internal", "StartSession")
  ELSE [NoReply EXCEPT !.code = "ok", !.message = "sessionptr"]

\* doRegistration: the reply, given the outcome of each call.
Registration(g, newOk, email, mailOk, sessOk) ==
  IF g.err = "PinTooLong" THEN ErrorReply("InvalidRequest", g.err)
  ELSE IF g.err # "nil" THEN ErrorReply("Internal", g.err)
  ELSE IF ~newOk THEN ErrorReply("Internal", "NewUser")
  ELSE IF email /\ ~mailOk THEN ErrorReply("Internal", "email")
  ELSE IF ~sessOk THEN ErrorReply("Internal", "StartSession")
  ELSE [NoReply EXCEPT !.code = "ok", !.message = "sessionptr"]

\* doRegistration sending the mail whether or not an address was given.
RegistrationCallsMailAlways(g, newOk, sends, mail, sessOk) ==
  IF g.err # "nil" THEN <<"GenerateKeyshareSecret:" \o g.err>>
  ELSE <<"GenerateKeyshareSecret">> \o
       (IF ~newOk THEN <<"NewUser:error">>
        ELSE <<"NewUser", "AddEmailVerification", "SendHTMLMail", "sendRegistrationEmail">> \o
             (IF sessOk THEN <<"StartSession">> ELSE <<"StartSession:error">>))

\* sendRegistrationEmail: the calls it makes, up to the first that fails
\* (mail names it, "ok" when none does), and then its own return.
SendRegistrationEmail(mail) ==
  IF mail = "AddEmailVerification"
  THEN <<"AddEmailVerification:error", "sendRegistrationEmail:error">>
  ELSE IF mail = "Execute"
  THEN <<"AddEmailVerification", "Execute:error", "sendRegistrationEmail:error">>
  ELSE IF mail = "SendHTMLMail"
  THEN <<"AddEmailVerification", "SendHTMLMail:error", "sendRegistrationEmail:error">>
  ELSE <<"AddEmailVerification", "SendHTMLMail", "sendRegistrationEmail">>

\* doRegistration: the calls it makes and how each went, up to the first
\* that fails.
RegistrationCalls(g, newOk, sends, mail, sessOk) ==
  IF g.err # "nil" THEN <<"GenerateKeyshareSecret:" \o g.err>>
  ELSE <<"GenerateKeyshareSecret">> \o
       (IF ~newOk THEN <<"NewUser:error">>
        ELSE <<"NewUser">> \o
             (IF ~sends
              THEN IF sessOk THEN <<"StartSession">> ELSE <<"StartSession:error">>
              ELSE SendRegistrationEmail(mail) \o
                   (IF mail # "ok" THEN <<>>
                    ELSE IF sessOk THEN <<"StartSession">> ELSE <<"StartSession:error">>)))

\* msg.Email: a pointer that is nil, or points to a string.
NoEmail == <<>>
Emails == {NoEmail, <<"">>, <<"a@b">>}

\* doRegistration: msg.Email != nil && *msg.Email != "" && conf.EmailServer != "".
SendsEmail(email) == email # NoEmail /\ email[1] # "" /\ emailServer # ""

\* How sendRegistrationEmail can go: the step that fails, or "ok".
MailOutcomes ==
  IF dbFails THEN {"ok", "AddEmailVerification", "Execute", "SendHTMLMail"} ELSE {"ok"}

\* generateUsername: a name no row has yet.
FreshNames(names) ==
  {names[i] : i \in {j \in 1 .. Len(names) :
                       /\ ~db[names[j]].exists
                       /\ \A k \in 1 .. j - 1 : db[names[k]].exists}}

HandleRegister(r, names, body, pin, secret, email) ==
  /\ Free(r)
  /\ LET q == [IdleReq EXCEPT !.kind = "register", !.pin = pin, !.body = body,
                               !.email = email]
     IN IF body = "malformed"
        THEN /\ req' = [req EXCEPT ![r] = Done(q, ErrorReply("InvalidRequest", "Invalid request"))]
             /\ UNCHANGED <<db, nonces, pinHistory>>
        ELSE \E username \in FreshNames(names) :
             \E coreOk \in StoreOutcomes, newOk \in StoreOutcomes,
                mail \in MailOutcomes, sessOk \in StoreOutcomes :
               LET g == IF coreOk THEN GenerateKeyshareSecret(pin, secret, nonces + 1)
                        ELSE [err |-> "Random", blob |-> NoBlob]
                   stored == g.err = "nil" /\ newOk
                   sends == SendsEmail(email)
                   mailOk == mail = "ok"
                   started == stored /\ (sends => mailOk) /\ sessOk
               IN /\ g.err = "nil" => nonces < MaxNonce
                  /\ nonces' = IF g.err = "nil" THEN nonces + 1 ELSE nonces
                  /\ db' = IF stored THEN [db EXCEPT ![username] = NewRow(g.blob)] ELSE db
                  /\ pinOf' = IF stored THEN [pinOf EXCEPT ![username] = pin] ELSE pinOf
                  /\ ladder' = IF stored /\ maxPinTries = 3
                               THEN [ladder EXCEPT ![username] = LadderStart]
                               ELSE ladder
                  /\ grants' = grants
                  /\ prevPin' = prevPin
                  /\ req' = [req EXCEPT ![r] =
                       Done([q EXCEPT !.username = username,
                                      !.issuing = IF started THEN username ELSE "",
                                      !.calls = RegistrationCalls(g, newOk, sends,
                                                                  mail, sessOk)],
                            Registration(g, newOk, sends, mailOk, sessOk))]
  /\ UNCHANGED <<now, maxPinTries, dbFails, emailServer, managerVars, sessionVars, coreKeys, issued, proveVars>>

\* --------------------------------------------------------- /users/verify/pin
\* handleVerifyPin up to the call of doVerifyPin: parse the body, fetch the user.
HandleVerifyPin(r, body, username, pin) ==
  /\ Free(r)
  /\ LET q == [IdleReq EXCEPT !.kind = "verifyPin", !.pin = pin]
     IN IF body = "malformed"
        THEN /\ req' = [req EXCEPT ![r] = Done(q, ErrorReply("InvalidRequest", "parse"))]
             /\ ladder' = ladder
        ELSE IF ~UserOf(username).exists
        THEN /\ req' = [req EXCEPT ![r] =
                          Done([q EXCEPT !.username = username, !.calls = <<"User">>],
                               ErrorReply("UserNotRegistered", ""))]
             /\ ladder' = ladder
        ELSE /\ req' = [req EXCEPT ![r] =
                          [q EXCEPT !.pc = "reserve", !.username = username,
                                    !.blob = db[username].coredata,
                                    !.truePin = pinOf[username],
                                    !.prev = prevPin[username],
                                    !.calls = <<"User">>]]
             /\ ladder' = IF Contended(r, username)
                          THEN [ladder EXCEPT ![username] = LadderOff] ELSE ladder
  /\ UNCHANGED <<now, db, maxPinTries, dbFails, emailServer, managerVars, sessionVars, coreKeys, issued, nonces,
                 proveVars, pinOf, prevPin, grants>>

\* doVerifyPin going on to the core whatever the reservation said.
VerifyPinReservedUngated(q, ok, res, logOk, t) ==
  [q EXCEPT !.calls = @ \o <<"ReservePincheck">>, !.at = t, !.pc = "check",
            !.reserved = IF res.allowed THEN "allowed" ELSE "refused",
            !.tries = res.tries, !.wait = res.wait]

\* doVerifyPin answering a refused reservation with the tries left in place
\* of the wait.
VerifyPinReservedTriesForWait(q, ok, res, logOk, t) ==
  LET c == [q EXCEPT !.calls = @ \o <<"ReservePincheck">>, !.at = t]
  IN IF ~ok
     THEN Done([c EXCEPT !.reserved = "error"], StatusReply("", ""))
     ELSE IF ~res.allowed
     THEN Done([c EXCEPT !.reserved = "refused", !.wait = res.wait,
                         !.calls = @ \o <<AddLog("PinCheckRefused", logOk)>>],
               IF logOk THEN StatusReply("error", ToString(res.tries))
               ELSE ErrorReply("Internal", "AddLog"))
     ELSE [c EXCEPT !.pc = "check", !.reserved = "allowed",
                    !.tries = res.tries, !.wait = res.wait]

\* doVerifyPin from the reservation to the call of the core: the request
\* after ReservePincheck answered res (ok: the store call itself worked).
VerifyPinReserved(q, ok, res, logOk, t) ==
  LET c == [q EXCEPT !.calls = @ \o <<"ReservePincheck">>, !.at = t]
  IN IF ~ok
     THEN Done([c EXCEPT !.reserved = "error"], StatusReply("", ""))
     ELSE IF ~res.allowed
     THEN Done([c EXCEPT !.reserved = "refused", !.wait = res.wait,
                         !.calls = @ \o <<AddLog("PinCheckRefused", logOk)>>],
               IF logOk THEN StatusReply("error", ToString(res.wait))
               ELSE ErrorReply("Internal", "AddLog"))
     ELSE [c EXCEPT !.pc = "check", !.reserved = "allowed",
                    !.tries = res.tries, !.wait = res.wait]

\* The rung of the ladder a request reaches when its reply is written.
Rung(q, l) ==
  IF q.pc = "done"
  THEN LadderStep(l, q.kind, q.pin = q.truePin, q.at)
  ELSE l

DoVerifyPinReserve(r) ==
  /\ At(r, "verifyPin", "reserve")
  /\ \E ok \in StoreOutcomes, logOk \in StoreOutcomes :
       LET q == req[r]
           u == q.username
           res == ReservePincheck(db[u], now)
           q2 == VerifyPinReserved(q, ok, res, logOk, now)
           l2 == Rung(q2, ladder[u])
       IN /\ db' = IF ok THEN [db EXCEPT ![u] = res.row] ELSE db
          /\ grants' = IF ok /\ res.allowed THEN [grants EXCEPT ![u] = @ + 1] ELSE grants
          /\ ladder' = [ladder EXCEPT ![u] = l2]
          /\ req' = [req EXCEPT ![r] = [q2 EXCEPT !.rung = IF q2.pc = "done" THEN l2.stage ELSE 0]]
  /\ UNCHANGED <<now, maxPinTries, dbFails, emailServer, managerVars, sessionVars, coreKeys, issued, nonces, proveVars,
                 pinOf, prevPin>>

\* doVerifyPin answering a wrong pin with "failure" even when no try is left.
VerifyPinCheckedNoBlock(q, v, oks) ==
  LET c == [q EXCEPT !.calls = @ \o <<"ValidatePin">>]
  IN IF v.err = "InvalidPin"
     THEN Done([c EXCEPT !.calls = @ \o <<AddLog("PinCheckFailed", oks.log)>>],
               StatusReply("failure", ToString(q.tries)))
     ELSE Done([c EXCEPT !.calls = @ \o
                  <<"ClearPincheck", "SetSeen", AddLog("PinCheckSuccess", oks.log)>>],
               [StatusReply("success", "jwt") EXCEPT !.jwt = v.jwt])

\* doVerifyPin answering a failure of ClearPincheck or SetSeen with an error.
VerifyPinCheckedSurfacesAll(q, v, oks) ==
  LET c == [q EXCEPT !.calls = @ \o <<"ValidatePin">>]
  IN IF v.err \notin {"nil", "InvalidPin"}
     THEN Done(c, ErrorReply("Internal", v.err))
     ELSE IF v.err = "InvalidPin"
     THEN LET c1 == [c EXCEPT !.calls = @ \o <<AddLog("PinCheckFailed", oks.log)>>]
          IN IF ~oks.log THEN Done(c1, ErrorReply("Internal", "AddLog"))
             ELSE IF q.tries = 0
             THEN Done([c1 EXCEPT !.calls = @ \o <<AddLog("PinCheckBlocked", oks.log2)>>],
                       IF oks.log2 THEN StatusReply("error", ToString(q.wait))
                       ELSE ErrorReply("Internal", "AddLog"))
             ELSE Done(c1, StatusReply("failure", ToString(q.tries)))
     ELSE LET c1 == [c EXCEPT !.calls = @ \o
                        <<IF oks.clear THEN "ClearPincheck" ELSE "ClearPincheck:error",
                          IF oks.seen THEN "SetSeen" ELSE "SetSeen:error",
                          AddLog("PinCheckSuccess", oks.log)>>]
          IN IF ~oks.log \/ ~oks.clear \/ ~oks.seen
             THEN Done(c1, ErrorReply("Internal", "store"))
             ELSE Done(c1, [StatusReply("success", "jwt") EXCEPT !.jwt = v.jwt])

\* doVerifyPin from the call of the core on: the reply, given what
\* ValidatePin answered and how the store calls went.
VerifyPinChecked(q, v, oks) ==
  LET c == [q EXCEPT !.calls = @ \o <<"ValidatePin">>]
  IN IF v.err \notin {"nil", "InvalidPin"}
     THEN Done(c, ErrorReply("Internal", v.err))
     ELSE IF v.err = "InvalidPin"
     THEN LET c1 == [c EXCEPT !.calls = @ \o <<AddLog("PinCheckFailed", oks.log)>>]
          IN IF ~oks.log THEN Done(c1, ErrorReply("Internal", "AddLog"))
             ELSE IF q.tries = 0
             THEN Done([c1 EXCEPT !.calls = @ \o <<AddLog("PinCheckBlocked", oks.log2)>>],
                       IF oks.log2 THEN StatusReply("error", ToString(q.wait))
                       ELSE ErrorReply("Internal", "AddLog"))
             ELSE Done(c1, StatusReply("failure", ToString(q.tries)))
     ELSE LET c1 == [c EXCEPT !.calls = @ \o
                        <<IF oks.clear THEN "ClearPincheck" ELSE "ClearPincheck:error",
                          IF oks.seen THEN "SetSeen" ELSE "SetSeen:error",
                          AddLog("PinCheckSuccess", oks.log)>>]
          IN IF ~oks.log THEN Done(c1, ErrorReply("Internal", "AddLog"))
             ELSE Done(c1, [StatusReply("success", "jwt") EXCEPT !.jwt = v.jwt])

\* doVerifyPin without the call of ClearPincheck.
VerifyPinRowNoClear(row, v, oks, t) ==
  IF v.err # "nil" THEN row ELSE SetSeen(row, t)

\* The user's row after doVerifyPin's store calls that follow the core's answer.
VerifyPinRow(row, v, oks, t) ==
  IF v.err # "nil" THEN row
  ELSE LET r1 == IF oks.clear THEN ClearPincheck(row) ELSE row
       IN IF oks.seen THEN SetSeen(r1, t) ELSE r1

Outcomes == [clear : StoreOutcomes, seen : StoreOutcomes,
             log : StoreOutcomes, log2 : StoreOutcomes]

DoVerifyPinCheck(r) ==
  /\ At(r, "verifyPin", "check")
  /\ \E oks \in Outcomes :
       LET q == req[r]
           u == q.username
           v == ValidatePin(q.blob, q.pin, u, now)
           q2 == VerifyPinChecked(q, v, oks)
           l2 == Rung(q2, ladder[u])
       IN /\ db' = [db EXCEPT ![u] = VerifyPinRow(@, v, oks, now)]
          /\ grants' = IF v.err = "nil" /\ oks.clear
                       THEN [grants EXCEPT ![u] = 0] ELSE grants
          /\ ladder' = [ladder EXCEPT ![u] = l2]
          /\ req' = [req EXCEPT ![r] = [q2 EXCEPT !.rung = l2.stage]]
  /\ UNCHANGED <<now, maxPinTries, dbFails, emailServer, managerVars, sessionVars, coreKeys, issued, nonces, proveVars,
                 pinOf, prevPin>>

\* --------------------------------------------------------- /users/change/pin
\* handleChangePin up to the call of doUpdatePin: parse the body, fetch the user.
HandleChangePin(r, body, username, oldPin, newPin) ==
  /\ Free(r)
  /\ LET q == [IdleReq EXCEPT !.kind = "changePin", !.pin = oldPin, !.newPin = newPin]
     IN IF body = "malformed"
        THEN /\ req' = [req EXCEPT ![r] = Done(q, ErrorReply("InvalidRequest", "Invalid request"))]
             /\ ladder' = ladder
        ELSE IF ~UserOf(username).exists
        THEN /\ req' = [req EXCEPT ![r] =
                          Done([q EXCEPT !.username = username, !.calls = <<"User">>],
                               ErrorReply("UserNotRegistered", ""))]
             /\ ladder' = ladder
        ELSE /\ req' = [req EXCEPT ![r] =
                          [q EXCEPT !.pc = "reserve", !.username = username,
                                    !.blob = db[username].coredata,
                                    !.truePin = pinOf[username],
                                    !.calls = <<"User">>]]
             /\ ladder' = IF Contended(r, username)
                          THEN [ladder EXCEPT ![username] = LadderOff] ELSE ladder
  /\ UNCHANGED <<now, db, maxPinTries, dbFails, emailServer, managerVars, sessionVars, coreKeys, issued, nonces,
                 proveVars, pinOf, prevPin, grants>>

\* doUpdatePin going on to the core whatever the reservation said.
UpdatePinReservedUngated(q, ok, res, t) ==
  [q EXCEPT !.calls = @ \o <<"ReservePincheck">>, !.at = t, !.pc = "change",
            !.reserved = IF res.allowed THEN "allowed" ELSE "refused",
            !.tries = res.tries, !.wait = res.wait]

\* doUpdatePin from the reservation to the call of the core.
UpdatePinReserved(q, ok, res, t) ==
  LET c == [q EXCEPT !.calls = @ \o <<"ReservePincheck">>, !.at = t]
  IN IF ~ok
     THEN Done([c EXCEPT !.reserved = "error"], ErrorReply("Internal", "ReservePincheck"))
     ELSE IF ~res.allowed
     THEN Done([c EXCEPT !.reserved = "refused", !.wait = res.wait],
               StatusReply("error", ToString(res.wait)))
     ELSE [c EXCEPT !.pc = "change", !.reserved = "allowed",
                    !.tries = res.tries, !.wait = res.wait]

DoUpdatePinReserve(r) ==
  /\ At(r, "changePin", "reserve")
  /\ \E ok \in StoreOutcomes :
       LET q == req[r]
           u == q.username
           res == ReservePincheck(db[u], now)
           q2 == UpdatePinReserved(q, ok, res, now)
           l2 == Rung(q2, ladder[u])
       IN /\ db' = IF ok THEN [db EXCEPT ![u] = res.row] ELSE db
          /\ grants' = IF ok /\ res.allowed THEN [grants EXCEPT ![u] = @ + 1] ELSE grants
          /\ ladder' = [ladder EXCEPT ![u] = l2]
          /\ req' = [req EXCEPT ![r] = [q2 EXCEPT !.rung = IF q2.pc = "done" THEN l2.stage ELSE 0]]
  /\ UNCHANGED <<now, maxPinTries, dbFails, emailServer, managerVars, sessionVars, coreKeys, issued, nonces, proveVars,
                 pinOf, prevPin>>

\* doUpdatePin from the call of the core on: the reply, given what ChangePin
\* answered (c) and how the store calls went.  The blob of the request's user
\* is assigned whatever ChangePin returned.
UpdatePinChanged(q, c, clearOk, updOk) ==
  LET c0 == [q EXCEPT !.calls = @ \o <<"ChangePin">>, !.blob = c.blob]
  IN IF c.err = "InvalidPin"
     THEN IF q.tries = 0
          THEN Done(c0, StatusReply("error", ToString(q.wait)))
          ELSE Done(c0, StatusReply("failure", ToString(q.tries)))
     ELSE IF c.err # "nil"
     THEN Done(c0, StatusReply("", ""))
     ELSE LET c1 == [c0 EXCEPT !.calls = @ \o
                        <<IF clearOk THEN "ClearPincheck" ELSE "ClearPincheck:error",
                          IF updOk THEN "UpdateUser" ELSE "UpdateUser:error">>]
          IN IF ~updOk THEN Done(c1, ErrorReply("Internal", "UpdateUser"))
             ELSE Done(c1, StatusReply("success", ""))

\* doUpdatePin clearing the pincheck state whatever ChangePin answered.
UpdatePinRowAlwaysClear(row, c, clearOk, updOk) ==
  IF c.err # "nil" THEN ClearPincheck(row)
  ELSE UpdateUser(ClearPincheck(row), c.blob)

\* doUpdatePin clearing the pincheck state and not writing the user back.
UpdatePinRowNoWrite(row, c, clearOk, updOk) ==
  IF c.err # "nil" THEN row
  ELSE IF clearOk THEN ClearPincheck(row) ELSE row

\* doUpdatePin over a store whose rows are the objects the requests hold: the
\* assignment of ChangePin's result to user.Data().Coredata is the write.
UpdatePinRowWriteThrough(row, c, clearOk, updOk) ==
  LET r1 == IF c.err = "nil" /\ clearOk THEN ClearPincheck(row) ELSE row
  IN UpdateUser(r1, c.blob)

\* The user's row after doUpdatePin's store calls that follow the core's answer.
UpdatePinRow(row, c, clearOk, updOk) ==
  IF c.err # "nil" THEN row
  ELSE LET r1 == IF clearOk THEN ClearPincheck(row) ELSE row
       IN IF updOk THEN UpdateUser(r1, c.blob) ELSE r1

DoUpdatePinChange(r) ==
  /\ At(r, "changePin", "change")
  /\ \E clearOk \in StoreOutcomes, updOk \in StoreOutcomes :
       LET q == req[r]
           u == q.username
           c == ChangePin(q.blob, q.pin, q.newPin, nonces + 1)
           q2 == UpdatePinChanged(q, c, clearOk, updOk)
           l2 == Rung(q2, ladder[u])
       IN /\ c.err = "nil" => nonces < MaxNonce
          /\ nonces' = IF c.err = "nil" THEN nonces + 1 ELSE nonces
          /\ db' = [db EXCEPT ![u] = UpdatePinRow(@, c, clearOk, updOk)]
          /\ pinOf' = IF c.err = "nil" /\ updOk THEN [pinOf EXCEPT ![u] = q.newPin] ELSE pinOf
          /\ prevPin' = IF c.err = "nil" /\ updOk THEN [prevPin EXCEPT ![u] = q.pin]
                         ELSE prevPin
          /\ grants' = IF c.err = "nil" /\ clearOk THEN [grants EXCEPT ![u] = 0] ELSE grants
          /\ ladder' = [ladder EXCEPT ![u] = l2]
          /\ req' = [req EXCEPT ![r] = [q2 EXCEPT !.rung = l2.stage]]
  /\ UNCHANGED <<now, maxPinTries, dbFails, emailServer, managerVars, sessionVars, coreKeys, issued, proveVars>>

\* ------------------------------------------------- the authenticated routes
\* The JWT is the one a verifyPin of the user gave the client (history).
IssuedTo(jwt, username) == jwt \in issued /\ jwt.sig = "server" /\ jwt.sub = username

\* The header a client sends for a JWT.
Bearer(jwt) == [bearer |-> 1, token |-> jwt]

\* authorizationMiddleware leaving the header as it came.
StripBearerNone(header) == header

\* authorizationMiddleware: strings.HasPrefix(authorization, "Bearer ") and
\* authorization[7:], one prefix at most.
StripBearer(header) ==
  IF header.bearer > 0 THEN [header EXCEPT !.bearer = @ - 1] ELSE header

\* The JWT the core reads in the authorization it is handed: a text that
\* still starts with "Bearer " is no JWT.
ParseJWT(authorization) ==
  IF authorization.bearer = 0 THEN authorization.token ELSE NoJWT

\* authorizationMiddleware with the test of the core's answer the wrong way round.
AuthorizationMiddlewareInverted(blob, auth, t) == ValidateJWT(blob, auth, t) # "nil"

\* authorizationMiddleware: hasValidAuthorization.
AuthorizationMiddleware(blob, auth, t) == ValidateJWT(blob, auth, t) = "nil"

\* userMiddleware loading the user the JWT names, not the one of the header.
AuthenticatedBySubject(kind, username, header) ==
  LET authorization == StripBearer(header)
      auth == ParseJWT(authorization)
      blob == UserOf(IF auth.sub \in DOMAIN db THEN auth.sub ELSE username).coredata
  IN [IdleReq EXCEPT !.kind = kind, !.username = username, !.blob = blob,
                     !.header = header, !.authorization = authorization,
                     !.auth = auth, !.held = IssuedTo(auth, username),
                     !.valid = AuthorizationMiddleware(blob, auth, now),
                     !.calls = <<"User", "ValidateJWT">>]

\* userMiddleware handing a request for a user the store does not have on to
\* authorizationMiddleware and the handler.
NotRegisteredPassedOn(kind, username) ==
  Done([IdleReq EXCEPT !.kind = kind, !.username = username,
                       !.calls = <<"User", "ValidateJWT">>],
       StatusReply("expired", ""))

\* A request of an authenticated route past userMiddleware and
\* authorizationMiddleware.
Authenticated(kind, username, header) ==
  LET authorization == StripBearer(header)
      auth == ParseJWT(authorization)
  IN [IdleReq EXCEPT !.kind = kind, !.username = username,
                     !.blob = UserOf(username).coredata,
                     !.header = header, !.authorization = authorization,
                     !.auth = auth, !.held = IssuedTo(auth, username),
                     !.valid = AuthorizationMiddleware(UserOf(username).coredata, auth, now),
                     !.calls = <<"User", "ValidateJWT">>]

\* userMiddleware answering for a user the store does not have.
NotRegistered(kind, username) ==
  Done([IdleReq EXCEPT !.kind = kind, !.username = username, !.calls = <<"User">>],
       ErrorReply("UserNotRegistered", "user"))

\* handleValidate answering "authorized" whatever the middleware found.
KeyshareAuthorizationAlways(valid) ==
  [NoReply EXCEPT !.code = "ok", !.status = "authorized", !.candidates = <<"pin">>]

\* handleValidate: server.WriteJson of the keyshareAuthorization.
KeyshareAuthorization(valid) ==
  [NoReply EXCEPT !.code = "ok", !.status = IF valid THEN "authorized" ELSE "expired",
                  !.candidates = <<"pin">>]

\* /users/isAuthorized
HandleValidate(r, username, header) ==
  /\ Free(r)
  /\ req' = [req EXCEPT ![r] =
       IF ~UserOf(username).exists THEN NotRegistered("isAuthorized", username)
       ELSE LET q == Authenticated("isAuthorized", username, header)
            IN Done(q, KeyshareAuthorization(q.valid)) ]
  /\ UNCHANGED <<now, db, maxPinTries, dbFails, emailServer, managerVars, sessionVars, coreKeys, issued, nonces,
                 proveVars, pinHistory>>

\* handleCommitments: how an error of generateCommitments is answered.
CoreError(err) ==
  IF err \in {"InvalidChallenge", "InvalidJWT"}
  THEN ErrorReply("InvalidRequest", err)
  ELSE ErrorReply("Internal", err)

\* /prove/getCommitments handing an empty key list on to the core.
HandleCommitmentsAnyList(r, username, header, body, keys, w) ==
  /\ Free(r)
  /\ IF ~UserOf(username).exists
     THEN /\ req' = [req EXCEPT ![r] = NotRegistered("getCommitments", username)]
          /\ UNCHANGED <<commitments, commitIDs, commitBy>>
     ELSE LET q == [Authenticated("getCommitments", username, header) EXCEPT
                      !.keys = keys, !.body = body]
          IN IF body = "malformed"
             THEN /\ req' = [req EXCEPT ![r] = Done(q, ErrorReply("InvalidRequest", "parse"))]
                  /\ UNCHANGED <<commitments, commitIDs, commitBy>>
             ELSE \E storeOk \in StoreOutcomes :
                    LET id == commitIDs + 1
                        g == GenerateCommitments(q.blob, q.auth, keys, w, id, now, storeOk)
                        c == [q EXCEPT !.calls = @ \o <<"GenerateCommitments">>]
                    IN IF g.err # "nil"
                       THEN /\ req' = [req EXCEPT ![r] = Done(c, CoreError(g.err))]
                            /\ UNCHANGED <<commitments, commitIDs, commitBy>>
                       ELSE /\ commitIDs < MaxCommits
                            /\ commitIDs' = id
                            /\ commitments' = commitments @@ (id :> w)
                            /\ commitBy' = commitBy @@ (id :> [username |-> username, auth |-> q.auth,
                                                            held |-> q.held, key |-> keys[1]])
                            /\ req' = [req EXCEPT ![r] =
                                 [c EXCEPT !.pc = "lock", !.commitID = id,
                                           !.reply = [NoReply EXCEPT !.commitments = g.commitments]]]
  /\ UNCHANGED <<now, db, maxPinTries, dbFails, emailServer, managerVars, sessionVars, coreKeys, issued, nonces,
                 responded, sessions, heap, sessionLock, pinHistory>>

\* /prove/getCommitments keeping the user's session alive on every request:
\* an entry the user has gets a new expiry even when the core refuses.
HandleCommitmentsRefreshing(r, username, header, body, keys, w) ==
  /\ Free(r)
  /\ ~UserOf(username).exists => UNCHANGED <<req, heap, commitments, commitIDs, commitBy>>
  /\ UserOf(username).exists =>
       LET q == [Authenticated("getCommitments", username, header) EXCEPT
                   !.keys = keys, !.body = body]
       IN IF body = "malformed" \/ Len(keys) = 0
          THEN /\ req' = [req EXCEPT ![r] = Done(q, ErrorReply("InvalidRequest", "parse"))]
               /\ UNCHANGED <<heap, commitments, commitIDs, commitBy>>
          ELSE \E storeOk \in StoreOutcomes :
                 LET id == commitIDs + 1
                     g == GenerateCommitments(q.blob, q.auth, keys, w, id, now, storeOk)
                     c == [q EXCEPT !.calls = @ \o <<"GenerateCommitments">>]
                 IN IF g.err # "nil"
                    THEN /\ req' = [req EXCEPT ![r] = Done(c, CoreError(g.err))]
                         /\ heap' = IF username \in DOMAIN sessions
                                    THEN [heap EXCEPT ![sessions[username]].expiry =
                                                        now + SessionExpirySeconds]
                                    ELSE heap
                         /\ UNCHANGED <<commitments, commitIDs, commitBy>>
                    ELSE /\ commitIDs < MaxCommits
                         /\ commitIDs' = id
                         /\ commitments' = commitments @@ (id :> w)
                         /\ commitBy' = commitBy @@ (id :> [username |-> username, auth |-> q.auth,
                                                         held |-> q.held, key |-> keys[1]])
                         /\ heap' = heap
                         /\ req' = [req EXCEPT ![r] =
                              [c EXCEPT !.pc = "lock", !.commitID = id,
                                        !.reply = [NoReply EXCEPT !.commitments = g.commitments]]]
  /\ UNCHANGED <<now, db, maxPinTries, dbFails, emailServer, managerVars, sessionVars, coreKeys, issued, nonces,
                 responded, sessions, sessionLock, pinHistory>>

\* /prove/getCommitments up to the session cache: the middlewares, the body,
\* Core.GenerateCommitments.
HandleCommitments(r, username, header, body, keys, w) ==
  /\ Free(r)
  /\ IF ~UserOf(username).exists
     THEN /\ req' = [req EXCEPT ![r] = NotRegistered("getCommitments", username)]
          /\ UNCHANGED <<commitments, commitIDs, commitBy>>
     ELSE LET q == [Authenticated("getCommitments", username, header) EXCEPT
                      !.keys = keys, !.body = body]
          IN IF body = "malformed"
             THEN /\ req' = [req EXCEPT ![r] = Done(q, ErrorReply("InvalidRequest", "parse"))]
                  /\ UNCHANGED <<commitments, commitIDs, commitBy>>
             ELSE IF Len(keys) = 0
             THEN /\ req' = [req EXCEPT ![r] =
                               Done(q, ErrorReply("InvalidRequest", "No key specified"))]
                  /\ UNCHANGED <<commitments, commitIDs, commitBy>>
             ELSE \E storeOk \in StoreOutcomes :
                    LET id == commitIDs + 1
                        g == GenerateCommitments(q.blob, q.auth, keys, w, id, now, storeOk)
                        c == [q EXCEPT !.calls = @ \o <<"GenerateCommitments">>]
                    IN IF g.err # "nil"
                       THEN /\ req' = [req EXCEPT ![r] = Done(c, CoreError(g.err))]
                            /\ UNCHANGED <<commitments, commitIDs, commitBy>>
                       ELSE /\ commitIDs < MaxCommits
                            /\ commitIDs' = id
                            /\ commitments' = commitments @@ (id :> w)
                            /\ commitBy' = commitBy @@ (id :> [username |-> username, auth |-> q.auth,
                                                            held |-> q.held, key |-> keys[1]])
                            /\ req' = [req EXCEPT ![r] =
                                 [c EXCEPT !.pc = "lock", !.commitID = id,
                                           !.reply = [NoReply EXCEPT !.commitments = g.commitments]]]
  /\ UNCHANGED <<now, db, maxPinTries, dbFails, emailServer, managerVars, sessionVars, coreKeys, issued, nonces,
                 responded, sessions, heap, sessionLock, pinHistory>>

NoSess == [LastCommitID |-> 0, LastKeyID |-> "", expiry |-> 0]

\* generateCommitments: take the lock, make the user's entry if there is
\* none, write LastCommitID.
CacheLock(r) ==
  /\ At(r, "getCommitments", "lock")
  /\ sessionLock = 0
  /\ sessionLock' = r
  /\ LET q == req[r]
         u == q.username
         fresh == u \notin DOMAIN sessions
         addr == IF fresh THEN Len(heap) + 1 ELSE sessions[u]
         h == IF fresh THEN Append(heap, NoSess) ELSE heap
     IN /\ sessions' = IF fresh THEN sessions @@ (u :> addr) ELSE sessions
        /\ heap' = [h EXCEPT ![addr].LastCommitID = q.commitID]
        /\ req' = [req EXCEPT ![r] = [q EXCEPT !.pc = "write", !.sess = addr]]
  /\ UNCHANGED <<now, db, maxPinTries, dbFails, emailServer, managerVars, sessionVars, coreKeys, issued, nonces,
                 commitments, commitIDs, responded, commitBy, pinHistory>>

\* generateCommitments writing an entry that is expired from the start.
CacheWriteNoLife(r) ==
  /\ At(r, "getCommitments", "write")
  /\ sessionLock' = 0
  /\ LET q == req[r]
     IN /\ heap' = [heap EXCEPT ![q.sess].LastKeyID = q.keys[1],
                                ![q.sess].expiry = now]
        /\ req' = [req EXCEPT ![r] = Done(q, [q.reply EXCEPT !.code = "ok"])]
  /\ UNCHANGED <<now, db, maxPinTries, dbFails, emailServer, managerVars, sessionVars, coreKeys, issued, nonces,
                 commitments, commitIDs, responded, commitBy, sessions, pinHistory>>

\* generateCommitments: write LastKeyID and expiry, release the lock, answer.
CacheWrite(r) ==
  /\ At(r, "getCommitments", "write")
  /\ sessionLock' = 0
  /\ LET q == req[r]
     IN /\ heap' = [heap EXCEPT ![q.sess].LastKeyID = q.keys[1],
                                ![q.sess].expiry = now + SessionExpirySeconds]
        /\ req' = [req EXCEPT ![r] = Done(q, [q.reply EXCEPT !.code = "ok"])]
  /\ UNCHANGED <<now, db, maxPinTries, dbFails, emailServer, managerVars, sessionVars, coreKeys, issued, nonces,
                 commitments, commitIDs, responded, commitBy, sessions, pinHistory>>

\* handleResponse looking the session up before it tests the authorization.
ResponseAccessLookupFirst(valid, found) ==
  IF ~found THEN "missing" ELSE IF ~valid THEN "unauthorized" ELSE "go"

\* handleResponse answering a missing session as a missing authorization.
ResponseAccessOneAnswer(valid, found) ==
  IF ~valid \/ ~found THEN "unauthorized" ELSE "go"

\* handleResponse: the test of the authorization, then the lookup of the session.
ResponseAccess(valid, found) ==
  IF ~valid THEN "unauthorized" ELSE IF ~found THEN "missing" ELSE "go"

\* /prove/getResponse up to the pointer to the user's session: the
\* middlewares, the body, the access test, the lookup under the lock.
HandleResponse(r, username, header, body, challenge) ==
  /\ Free(r)
  /\ req' = [req EXCEPT ![r] =
       IF ~UserOf(username).exists THEN NotRegistered("getResponse", username)
       ELSE LET q == [Authenticated("getResponse", username, header) EXCEPT
                        !.challenge = challenge, !.body = body]
                found == username \in DOMAIN sessions
                access == ResponseAccess(q.valid, found)
                c == [q EXCEPT !.calls = @ \o <<"sessions">>, !.found = found]
            IN IF body = "malformed" THEN Done(q, ErrorReply("InvalidRequest", "parse"))
               ELSE IF access = "unauthorized"
               THEN Done(q, ErrorReply("InvalidRequest", "Invalid authorization"))
               ELSE IF access = "missing"
               THEN Done(c, ErrorReply("InvalidRequest", "Missing previous call to getCommitments"))
               ELSE [c EXCEPT !.pc = "read", !.sess = sessions[username]] ]
  /\ (req'[r].pc = "read" \/ Called(req'[r], "sessions")) => sessionLock = 0
  /\ UNCHANGED <<now, db, maxPinTries, dbFails, emailServer, managerVars, sessionVars, coreKeys, issued, nonces,
                 proveVars, pinHistory>>

\* handleResponse: sessionData.LastCommitID, read without the lock.
ReadCommitID(r) ==
  /\ At(r, "getResponse", "read")
  /\ LET q == req[r]
     IN req' = [req EXCEPT ![r] =
          [q EXCEPT !.pc = "respond", !.commitID = heap[q.sess].LastCommitID,
                    !.calls = @ \o <<"LastCommitID">>]]
  /\ UNCHANGED <<now, db, maxPinTries, dbFails, emailServer, managerVars, sessionVars, coreKeys, issued, nonces,
                 proveVars, pinHistory>>

\* handleResponse: how the outcome of doGenerateResponses is answered.
ResponseReply(g) ==
  IF g.err = "nil" THEN [NoReply EXCEPT !.code = "ok", !.response = g.response]
  ELSE CoreError(g.err)

\* doGenerateResponses calling the core first and recording the activity after.
DoGenerateResponsesLogAfter(r) ==
  /\ At(r, "getResponse", "respond")
  /\ \E seenOk \in StoreOutcomes, logOk \in StoreOutcomes :
       LET q == req[r]
           u == q.username
           keyID == heap[q.sess].LastKeyID
           g == GenerateResponse(q.blob, q.auth, q.commitID, q.challenge, keyID, now)
           c == [q EXCEPT !.keyID = keyID,
                          !.calls = @ \o <<"LastKeyID", "GenerateResponse">> \o
                                    (IF g.err = "nil"
                                     THEN <<IF seenOk THEN "SetSeen" ELSE "SetSeen:error",
                                            AddLog("IrmaSession", logOk)>>
                                     ELSE <<>>)]
       IN /\ db' = IF seenOk /\ g.err = "nil" THEN [db EXCEPT ![u] = SetSeen(@, now)] ELSE db
          /\ req' = [req EXCEPT ![r] =
               Done(c, IF g.err = "nil" /\ ~logOk THEN ErrorReply("Internal", "AddLog")
                       ELSE ResponseReply(g))]
          /\ commitments' = g.store
          /\ responded' = IF g.err = "nil"
                          THEN IF q.commitID \in DOMAIN responded
                               THEN [responded EXCEPT ![q.commitID] = @ + 1]
                               ELSE responded @@ (q.commitID :> 1)
                          ELSE responded
  /\ UNCHANGED <<now, maxPinTries, dbFails, emailServer, managerVars, sessionVars, coreKeys, issued, nonces, commitIDs,
                 commitBy, sessions, heap, sessionLock, pinHistory>>

\* handleResponse: sessionData.LastKeyID, read without the lock, and
\* doGenerateResponses: SetSeen, AddLog(IrmaSession), Core.GenerateResponse.
DoGenerateResponses(r) ==
  /\ At(r, "getResponse", "respond")
  /\ \E seenOk \in StoreOutcomes, logOk \in StoreOutcomes :
       LET q == req[r]
           u == q.username
           keyID == heap[q.sess].LastKeyID
           g == GenerateResponse(q.blob, q.auth, q.commitID, q.challenge, keyID, now)
           c == [q EXCEPT !.keyID = keyID,
                          !.calls = @ \o <<"LastKeyID",
                                           IF seenOk THEN "SetSeen" ELSE "SetSeen:error",
                                           AddLog("IrmaSession", logOk)>>]
       IN /\ db' = IF seenOk THEN [db EXCEPT ![u] = SetSeen(@, now)] ELSE db
          /\ IF ~logOk
             THEN /\ req' = [req EXCEPT ![r] = Done(c, ErrorReply("Internal", "AddLog"))]
                  /\ UNCHANGED <<commitments, responded>>
             ELSE /\ req' = [req EXCEPT ![r] =
                       Done([c EXCEPT !.calls = @ \o <<"GenerateResponse">>], ResponseReply(g))]
                  /\ commitments' = g.store
                  /\ responded' = IF g.err = "nil"
                                  THEN IF q.commitID \in DOMAIN responded
                                       THEN [responded EXCEPT ![q.commitID] = @ + 1]
                                       ELSE responded @@ (q.commitID :> 1)
                                  ELSE responded
  /\ UNCHANGED <<now, maxPinTries, dbFails, emailServer, managerVars, sessionVars, coreKeys, issued, nonces, commitIDs,
                 commitBy, sessions, heap, sessionLock, pinHistory>>

\* clearSessions dropping, with an entry, the commitment the entry names.
ClearSessionsAndCommitments ==
  /\ ~Replying
  /\ sessionLock = 0
  /\ LET kept == {v \in DOMAIN sessions : ~(now > heap[sessions[v]].expiry)}
         gone == {heap[sessions[v]].LastCommitID : v \in DOMAIN sessions \ kept}
     IN /\ sessions' = [u \in kept |-> sessions[u]]
        /\ commitments' = [c \in DOMAIN commitments \ gone |-> commitments[c]]
  /\ UNCHANGED <<now, db, maxPinTries, dbFails, emailServer, managerVars, sessionVars, coreKeys, issued, nonces,
                 commitIDs, responded, commitBy, heap, sessionLock,
                 req, pinHistory>>

\* clearSessions: under the lock, drop the entries whose expiry is past.
ClearSessions ==
  /\ ~Replying
  /\ sessionLock = 0
  /\ sessions' = [u \in {v \in DOMAIN sessions : ~(now > heap[sessions[v]].expiry)}
                    |-> sessions[u]]
  /\ UNCHANGED <<now, db, maxPinTries, dbFails, emailServer, managerVars, sessionVars, coreKeys, issued, nonces,
                 commitments, commitIDs, responded, commitBy, heap, sessionLock,
                 req, pinHistory>>

\* ------------------------------------------------------------ the key ring
\* DangerousAddDecryptionKey making the key added the one new blobs are
\* encrypted with.
DangerousAddDecryptionKeyAsCurrent(keyID, key) ==
  /\ ~Replying
  /\ decryptionKeys' = [k \in DOMAIN decryptionKeys \cup {keyID} |->
                          IF k = keyID THEN key ELSE decryptionKeys[k]]
  /\ decryptionKey' = key
  /\ decryptionKeyID' = keyID
  /\ UNCHANGED <<now, db, maxPinTries, dbFails, emailServer, managerVars, sessionVars, trustedKeys, reload, issued, nonces,
                 proveVars, req, pinHistory>>

\* Core.DangerousAddDecryptionKey: decryptionKeys[keyID] = key.
DangerousAddDecryptionKey(keyID, key) ==
  /\ ~Replying
  /\ decryptionKeys' = [k \in DOMAIN decryptionKeys \cup {keyID} |->
                          IF k = keyID THEN key ELSE decryptionKeys[k]]
  /\ UNCHANGED <<now, db, maxPinTries, dbFails, emailServer, managerVars, sessionVars, decryptionKey, decryptionKeyID,
                 trustedKeys, reload, issued, nonces, proveVars, req, pinHistory>>

\* ------------------------------------------- the trusted issuer keys
\* LoadIdemixKeys, the update listener of the configuration, reaching its
\* call of DangerousAddTrustedPublicKey for key k.  It takes no lock and
\* waits for no request.
LoadIdemixKeys(k) ==
  /\ ~Replying
  /\ reload = ""
  /\ reload' = k
  /\ UNCHANGED <<now, db, maxPinTries, dbFails, emailServer, managerVars, sessionVars, decryptionKeys, decryptionKey,
                 decryptionKeyID, trustedKeys, issued, nonces, proveVars, req,
                 pinHistory>>

\* Core.DangerousAddTrustedPublicKey: trustedKeys[keyID] = key.  The write
\* of the map is not one instruction: the key is in the table from here,
\* the assignment is over with LoadIdemixKeysNext.
DangerousAddTrustedPublicKey ==
  /\ ~Replying
  /\ reload # ""
  /\ reload \notin trustedKeys
  /\ trustedKeys' = trustedKeys \cup {reload}
  /\ UNCHANGED <<now, db, maxPinTries, dbFails, emailServer, managerVars, sessionVars, decryptionKeys, decryptionKey,
                 decryptionKeyID, reload, issued, nonces, proveVars, req,
                 pinHistory>>

\* LoadIdemixKeys: the assignment is over, on to the next key.
LoadIdemixKeysNext ==
  /\ ~Replying
  /\ reload \in trustedKeys
  /\ reload' = ""
  /\ UNCHANGED <<now, db, maxPinTries, dbFails, emailServer, managerVars, sessionVars, decryptionKeys, decryptionKey,
                 decryptionKeyID, trustedKeys, issued, nonces, proveVars, req,
                 pinHistory>>

\* Core.GenerateResponse reading trustedKeys while the listener writes it: a
\* read during the assignment sees the table without the key (before
\* DangerousAddTrustedPublicKey) or with it (after), both through
\* DoGenerateResponses, or the runtime finds the map being written and
\* aborts the process ("concurrent map read and map write"), which is this
\* step: the core has validated the JWT, taken the commitment and decrypted
\* the blob by then.
ConcurrentMapRead(r) ==
  /\ At(r, "getResponse", "respond")
  /\ reload # ""
  /\ LET q == req[r]
         take == ConsumeCommitment(commitments, q.commitID)
     IN /\ ValidateJWT(q.blob, q.auth, now) = "nil"
        /\ take.found
        /\ CanDecrypt(q.blob)
        /\ commitments' = take.store
        /\ db' = [db EXCEPT ![q.username] = SetSeen(@, now)]
        /\ req' = [req EXCEPT ![r] =
             [q EXCEPT !.pc = "fatal", !.keyID = heap[q.sess].LastKeyID,
                       !.calls = @ \o <<"LastKeyID", "SetSeen", AddLog("IrmaSession", TRUE),
                                        "GenerateResponse">>]]
  /\ UNCHANGED <<now, maxPinTries, dbFails, emailServer, managerVars, sessionVars, coreKeys, issued, nonces, commitIDs,
                 responded, commitBy, sessions, heap, sessionLock, pinHistory>>

\* ------------------------------------------------ the credential manager
\* The variables of the keyshare server, which the credential manager and the
\* session server leave alone.
keyshareVars == <<now, db, maxPinTries, dbFails, emailServer, coreKeys, issued, nonces,
                  proveVars, req, pinHistory>>

\* Filenames in which the manager stores stuff.
updatesFile == "updates"
skFile == "sk"

\* The random file names saveFile can draw (hex of 16 random bytes).
TempNames == {"0a", "0b"}

\* len(credentialManagerUpdates) of the release modelled.
NumUpdates == 2
UpdateNumbers == 0 .. NumUpdates - 1

\* An entry of cm.updates (the time of the update is left out).
Update(i, ok) == [Number |-> i, Success |-> ok]

\* json.Marshal and json.Unmarshal of cm.updates.  A file is a sequence of
\* tokens: the brackets and one token for each entry.
UpdateTokens == [u \in {Update(i, ok) : i \in UpdateNumbers, ok \in BOOLEAN} |->
                   <<"0-", "0+", "1-", "1+">>[2 * u.Number + (IF u.Success THEN 2 ELSE 1)]]

MarshalUpdates(updates) ==
  <<"[">> \o [k \in 1 .. Len(updates) |-> UpdateTokens[updates[k]]] \o <<"]">>

UnmarshalUpdates(bytes) ==
  LET n == Len(bytes)
      entry(tok) == CHOOSE u \in DOMAIN UpdateTokens : UpdateTokens[u] = tok
  IN IF /\ n >= 2
        /\ bytes[1] = "["
        /\ bytes[n] = "]"
        /\ \A k \in 2 .. n - 1 : \E u \in DOMAIN UpdateTokens : UpdateTokens[u] = bytes[k]
     THEN [err |-> "nil", updates |-> [k \in 1 .. n - 2 |-> entry(bytes[k + 1])]]
     ELSE [err |-> "json", updates |-> <<>>]

\* The secret keys generateSecretKey can draw, and their JSON.
SecretKeys == {"s1", "s2"}
MarshalSecretKey(sk) == <<"{", sk, "}">>
UnmarshalSecretKey(bytes) ==
  IF Len(bytes) = 3 /\ bytes[1] = "{" /\ bytes[2] \in SecretKeys /\ bytes[3] = "}"
  THEN [err |-> "nil", sk |-> bytes[2]]
  ELSE [err |-> "json", sk |-> ""]

\* The file at a path: <<content>>, or <<>> when there is none.
FileOf(path) == IF path \in DOMAIN files THEN <<files[path]>> ELSE <<>>

\* The file system after a file got a content, and after os.Rename.
WithFile(fs, path, content) ==
  [p \in DOMAIN fs \cup {path} |-> IF p = path THEN content ELSE fs[p]]

OsRename(fs, oldpath, newpath) ==
  IF oldpath = newpath THEN fs
  ELSE [p \in (DOMAIN fs \ {oldpath}) \cup {newpath} |->
          IF p = newpath THEN fs[oldpath] ELSE fs[p]]

\* saveFile writing the content to the file itself.
WritePathInPlace(filepath, tempfilename) == filepath

\* saveFile: the file the content is written to, dir+"/"+tempfilename.
WritePath(filepath, tempfilename) == tempfilename

NoSave == [pc |-> "idle", filepath |-> "", content |-> <<>>, tempfilename |-> "",
           old |-> <<>>, err |-> "nil"]

\* The call saveFile(filepath, content); old remembers the file as it is now.
CallSaveFile(filepath, content) ==
  [NoSave EXCEPT !.pc = "rand", !.filepath = filepath, !.content = content,
                 !.old = FileOf(filepath)]

SaveFileReturns(err) == [save EXCEPT !.pc = "returned", !.err = err]

\* saveFile: read random data for the filename.
SaveFileRand ==
  /\ save.pc = "rand"
  /\ \/ \E t \in TempNames : save' = [save EXCEPT !.pc = "create", !.tempfilename = t]
     \/ save' = SaveFileReturns("rand.Read")
  /\ UNCHANGED <<keyshareVars, sessionVars, files, cm, executed>>

\* ioutil.WriteFile: open the file, creating or truncating it.
WriteFileCreate ==
  /\ save.pc = "create"
  /\ \/ /\ files' = WithFile(files, WritePath(save.filepath, save.tempfilename), <<>>)
        /\ save' = [save EXCEPT !.pc = "write"]
     \/ /\ save' = SaveFileReturns("WriteFile")
        /\ files' = files
  /\ UNCHANGED <<keyshareVars, sessionVars, cm, executed>>

\* ioutil.WriteFile: write the content, which can stop short with an error,
\* and close the file.
WriteFileWrite ==
  /\ save.pc = "write"
  /\ LET path == WritePath(save.filepath, save.tempfilename)
         n == Len(files[path])
     IN IF n = Len(save.content)
        THEN /\ save' = [save EXCEPT !.pc = "rename"]
             /\ files' = files
        ELSE \/ /\ files' = WithFile(files, path, Append(files[path], save.content[n + 1]))
                /\ save' = save
             \/ /\ save' = SaveFileReturns("WriteFile")
                /\ files' = files
  /\ UNCHANGED <<keyshareVars, sessionVars, cm, executed>>

\* saveFile: rename the temp file to filepath, overwriting the old file.
SaveFileRename ==
  /\ save.pc = "rename"
  /\ \/ /\ files' = OsRename(files, WritePath(save.filepath, save.tempfilename), save.filepath)
        /\ save' = SaveFileReturns("nil")
     \/ /\ save' = SaveFileReturns("Rename")
        /\ files' = files
  /\ UNCHANGED <<keyshareVars, sessionVars, cm, executed>>

MaxStartups == 2     \* starts of the credential manager on one storage

NoManager == [pc |-> "off", updates |-> <<>>, startups |-> 0]

\* NewCredentialManager up to the call of cm.update.
NewCredentialManager ==
  /\ cm.pc = "off"
  /\ cm.startups < MaxStartups
  /\ cm' = [cm EXCEPT !.pc = "update", !.startups = @ + 1]
  /\ UNCHANGED <<keyshareVars, sessionVars, files, save, executed>>

\* update: load and parse the file of the updates already performed.
UpdateLoad ==
  /\ cm.pc = "update"
  /\ cm' = IF updatesFile \notin DOMAIN files
           THEN [cm EXCEPT !.pc = "perform", !.updates = <<>>]
           ELSE LET u == UnmarshalUpdates(files[updatesFile])
                IN IF u.err # "nil" THEN [cm EXCEPT !.pc = "failed"]
                   ELSE [cm EXCEPT !.pc = "perform", !.updates = u.updates]
  /\ UNCHANGED <<keyshareVars, sessionVars, files, save, executed>>

\* update: perform the next new update, which succeeds or fails, and note it.
UpdatePerform ==
  /\ cm.pc = "perform"
  /\ Len(cm.updates) < NumUpdates
  /\ \E ok \in BOOLEAN :
       LET i == Len(cm.updates)
       IN /\ executed' = [executed EXCEPT ![i] = @ + 1]
          /\ cm' = [cm EXCEPT !.updates = Append(@, Update(i, ok))]
  /\ UNCHANGED <<keyshareVars, sessionVars, files, save>>

\* update: save the updates file.
UpdateSave ==
  /\ cm.pc = "perform"
  /\ Len(cm.updates) >= NumUpdates
  /\ save' = CallSaveFile(updatesFile, MarshalUpdates(cm.updates))
  /\ cm' = [cm EXCEPT !.pc = "save"]
  /\ UNCHANGED <<keyshareVars, sessionVars, files, executed>>

\* update returns nil once saveFile has returned, whatever saveFile returned.
UpdateReturn ==
  /\ cm.pc = "save"
  /\ save.pc = "returned"
  /\ cm' = [cm EXCEPT !.pc = "loadSecretKey"]
  /\ save' = NoSave
  /\ UNCHANGED <<keyshareVars, sessionVars, files, executed>>

\* loadSecretKey: read the secret key, or generate and store one.
LoadSecretKey ==
  /\ cm.pc = "loadSecretKey"
  /\ IF skFile \in DOMAIN files
     THEN /\ cm' = [cm EXCEPT !.pc = IF UnmarshalSecretKey(files[skFile]).err = "nil"
                                     THEN "ready" ELSE "failed"]
          /\ save' = save
     ELSE \E sk \in SecretKeys :
            /\ save' = CallSaveFile(skFile, MarshalSecretKey(sk))
            /\ cm' = [cm EXCEPT !.pc = "storeSecretKey"]
  /\ UNCHANGED <<keyshareVars, sessionVars, files, executed>>

\* loadSecretKey after storeSecretKey: the error of saveFile is returned.
StoreSecretKeyReturn ==
  /\ cm.pc = "storeSecretKey"
  /\ save.pc = "returned"
  /\ cm' = [cm EXCEPT !.pc = IF save.err = "nil" THEN "ready" ELSE "failed"]
  /\ save' = NoSave
  /\ UNCHANGED <<keyshareVars, sessionVars, files, executed>>

\* The process of the manager ends, at any point; the storage stays.
Exit ==
  /\ cm.pc # "off"
  /\ cm' = [cm EXCEPT !.pc = "off", !.updates = <<>>]
  /\ save' = NoSave
  /\ UNCHANGED <<keyshareVars, sessionVars, files, executed>>

\* No credential manager runs: an empty storage directory.
InitManager ==
  /\ files = [p \in {} |-> <<>>]
  /\ save = NoSave
  /\ cm = NoManager
  /\ executed = [i \in UpdateNumbers |-> 0]

\* ---------------------------------------------------- the session server
MaxSessions == 2     \* sessions started in one run

\* The tokens newSession draws for its n-th session: the requestor token
\* (session.token) and the client token (session.clientToken), random and
\* distinct.
RequestorToken(n) == <<"token", n>>
ClientToken(n) == <<"clientToken", n>>

\* server.Status.Finished
Finished(status) == status \in {"DONE", "CANCELLED", "TIMEOUT"}

\* session.handleDelete: cancels a session that has not finished.
HandleDelete(status) == IF Finished(status) THEN status ELSE "CANCELLED"

\* The status of a session after the handler its client message is routed to:
\* GET of the session request connects an initialized session, POST of the
\* commitments or proofs completes a connected one, DELETE cancels; a message
\* that fails or comes out of turn cancels the session (session.fail); GET of
\* the status changes nothing.  A finished session stays as it is.
ClientMessageStatus(status, method, noun, ok) ==
  IF method = "GET" /\ noun = "status" THEN status
  ELSE IF Finished(status) THEN status
  ELSE IF method = "DELETE" /\ noun = "" THEN HandleDelete(status)
  ELSE IF method = "GET" /\ noun = "" /\ status = "INITIALIZED" /\ ok THEN "CONNECTED"
  ELSE IF method = "POST" /\ noun = "proofs" /\ status = "CONNECTED" /\ ok THEN "DONE"
  ELSE "CANCELLED"

\* Server.handlers after s.handlers[key] = handler and after delete(s.handlers, key).
WithHandler(hs, key, handler) ==
  [k \in DOMAIN hs \cup {key} |-> IF k = key THEN handler ELSE hs[k]]
WithoutHandler(hs, key) == [k \in DOMAIN hs \ {key} |-> hs[k]]

\* StartSession for a request that validates: the new session, and the
\* handler, if one is given, stored under session.token.
StartSession(handler) ==
  /\ Cardinality(DOMAIN invoked) < MaxSessions
  /\ LET n == Cardinality(DOMAIN invoked) + 1
         token == RequestorToken(n)
     IN /\ irmaSessions' = irmaSessions @@
             (token :> [token |-> token, clientToken |-> ClientToken(n),
                        status |-> "INITIALIZED", prevStatus |-> "INITIALIZED",
                        handler |-> handler])
        /\ handlers' = IF handler # "nil" THEN WithHandler(handlers, token, handler)
                       ELSE handlers
        /\ invoked' = invoked @@ (token :> 0)
  /\ UNCHANGED <<keyshareVars, managerVars>>

\* CancelSession(token) of the requestor.
CancelSession(token) ==
  /\ token \in DOMAIN irmaSessions
  /\ irmaSessions' = [irmaSessions EXCEPT ![token].status = HandleDelete(@)]
  /\ UNCHANGED <<keyshareVars, managerVars, handlers, invoked>>

\* handleClientMessage(token, noun, method, ...) for the client token of a
\* session: the handler the message is routed to, then the deferred function,
\* which on a changed status hands out session.result, starts the handler
\* stored under result.Token when the result is finished, and deletes the
\* entry of handlers under token.
HandleClientMessage(token, method, noun, ok) ==
  /\ \E t \in DOMAIN irmaSessions : irmaSessions[t].clientToken = token
  /\ LET session == irmaSessions[CHOOSE t \in DOMAIN irmaSessions :
                                   irmaSessions[t].clientToken = token]
         status == ClientMessageStatus(session.status, method, noun, ok)
         changed == status # session.prevStatus
         result == [Token |-> session.token, Status |-> status]
         calls == changed /\ Finished(result.Status) /\ result.Token \in DOMAIN handlers
     IN /\ irmaSessions' = [irmaSessions EXCEPT ![session.token].status = status,
                                                ![session.token].prevStatus = status]
        /\ invoked' = IF calls THEN [invoked EXCEPT ![result.Token] = @ + 1] ELSE invoked
        /\ handlers' = IF calls THEN WithoutHandler(handlers, token) ELSE handlers
  /\ UNCHANGED <<keyshareVars, managerVars>>

\* The session server right after New.
InitSessionServer ==
  /\ irmaSessions = [t \in {} |-> 0]
  /\ handlers = [t \in {} |-> ""]
  /\ invoked = [t \in {} |-> 0]

\* ------------------------------------------------------------------- Init
UsernameSet == {Usernames[i] : i \in 1 .. Len(Usernames)}

\* The keyshare server's core, stores and session cache right after New.
InitServer ==
  /\ now = 0
  /\ decryptionKeyID = 1
  /\ decryptionKey = "aesA"
  /\ decryptionKeys = (1 :> "aesA")
  /\ trustedKeys = {"k1"}
  /\ reload = ""
  /\ commitments = [c \in {} |-> 0]
  /\ commitIDs = 0
  /\ responded = [c \in {} |-> 0]
  /\ commitBy = [c \in {} |-> 0]
  /\ sessions = [u \in {} |-> 0]
  /\ heap = <<>>
  /\ sessionLock = 0
  /\ req = [r \in Reqs |-> IdleReq]
  /\ grants = [u \in UsernameSet |-> 0]

InitCommon ==
  /\ InitManager
  /\ InitSessionServer
  /\ InitServer

\* The server right after New, over an empty user store.
InitPin ==
  /\ InitCommon
  /\ issued = {}
  /\ maxPinTries \in PinBudgets
  /\ dbFails = FALSE
  /\ emailServer = "smtp"
  /\ nonces = 0
  /\ db = [u \in UsernameSet |-> NoUser]
  /\ pinOf = [u \in UsernameSet |-> ""]
  /\ prevPin = [u \in UsernameSet |-> ""]
  /\ ladder = [u \in UsernameSet |-> LadderOff]

PinUsers == <<"u1">>
PinNames == {"u1", "nobody"}
PinTick == PinBackoff \div 2

NextPin ==
  \/ Tick(PinTick)
  \/ \E r \in Reqs : Finish(r)
  \/ \E r \in Reqs, body \in Bodies, pin \in {"12345", LongPin} :
       HandleRegister(r, PinUsers, body, pin, 2, NoEmail)
  \/ \E r \in Reqs, body \in Bodies, username \in PinNames, pin \in Pins :
       HandleVerifyPin(r, body, username, pin)
  \/ \E r \in Reqs : DoVerifyPinReserve(r)
  \/ \E r \in Reqs : DoVerifyPinCheck(r)
  \/ \E r \in Reqs, body \in Bodies, username \in PinNames, oldPin \in Pins,
        newPin \in {"54321", LongPin} :
       HandleChangePin(r, body, username, oldPin, newPin)
  \/ \E r \in Reqs : DoUpdatePinReserve(r)
  \/ \E r \in Reqs : DoUpdatePinChange(r)

SpecPin == InitPin /\ [][NextPin]_vars

\* The server right after New, over a user store that holds two users
\* registered earlier with the pin "12345" (their blobs carry nonces drawn
\* then).
Registered(secret, nonce) ==
  NewRow([keyID |-> 1, key |-> "aesA", nonce |-> nonce,
          pinHash |-> Hash("12345"), secret |-> secret])

InitProve ==
  /\ InitCommon
  /\ issued = {}
  /\ maxPinTries = 3
  /\ dbFails = FALSE
  /\ emailServer = "smtp"
  /\ nonces = 0
  /\ db = ("u1" :> Registered(2, -1)) @@ ("u2" :> Registered(3, -2))
  /\ pinOf = [u \in UsernameSet |-> "12345"]
  /\ prevPin = [u \in UsernameSet |-> ""]
  /\ ladder = [u \in UsernameSet |-> LadderOff]

\* The authorizations a client can present: a JWT it holds, one it forged
\* from a JWT it holds, or none.
Auths == issued \cup {Forge(j) : j \in issued} \cup {NoJWT}

\* The headers the client of the protocol sends for them.
Headers == {Bearer(j) : j \in Auths \ {NoJWT}} \cup {NoHeader}

ProveTick == SessionExpirySeconds

\* The whole protocol.  A getResponse runs beside any other request; the
\* other requests start one at a time here (SpecPin races the pin requests,
\* SpecRespond the requests of the proof, with the sweeper).
NextProve ==
  \/ Tick(ProveTick)
  \/ \E r \in Reqs : Finish(r)
  \/ \E r \in Reqs : Keep(r)
  \/ \E r \in {1} : HandleVerifyPin(r, "ok", "u1", "12345")
  \/ \E r \in Reqs : DoVerifyPinReserve(r)
  \/ \E r \in Reqs : DoVerifyPinCheck(r)
  \/ \E r \in {1} : HandleChangePin(r, "ok", "u1", "12345", "54321")
  \/ \E r \in Reqs : DoUpdatePinReserve(r)
  \/ \E r \in Reqs : DoUpdatePinChange(r)
  \/ \E r \in {1}, header \in Headers : HandleValidate(r, "u1", header)
  \/ \E r \in {1}, username \in UsernameSet, header \in Headers :
       HandleCommitments(r, username, header, "ok", <<"k1">>, 4)
  \/ \E r \in Reqs : CacheLock(r)
  \/ \E r \in Reqs : CacheWrite(r)
  \/ \E r \in Reqs, username \in UsernameSet, header \in Headers :
       HandleResponse(r, username, header, "ok", 5)
  \/ \E r \in Reqs : ReadCommitID(r)
  \/ \E r \in Reqs : DoGenerateResponses(r)

SpecProve == InitProve /\ [][NextProve]_vars

\* The server right after New, with a client that holds the JWT a verifyPin
\* of u1 gave it at time 0 (the signing key outlives the server process).
InitRespond ==
  /\ InitCommon
  /\ maxPinTries = 3
  /\ dbFails = FALSE
  /\ emailServer = "smtp"
  /\ nonces = 0
  /\ db = ("u1" :> Registered(2, -1)) @@ ("u2" :> Registered(3, -2))
  /\ pinOf = [u \in UsernameSet |-> "12345"]
  /\ prevPin = [u \in UsernameSet |-> ""]
  /\ ladder = [u \in UsernameSet |-> LadderOff]
  /\ issued = {SignJWT("u1", Registered(2, -1).coredata, 0)}

\* The proof requests alone, two at a time.
NextRespond ==
  \/ Tick(ProveTick)
  \/ \E r \in Reqs : Finish(r)
  \/ \E r \in Reqs, username \in UsernameSet, header \in Headers, body \in Bodies,
        keys \in {<<>>, <<"k1">>, <<"k2">>, <<"k1", "k2">>} :
       HandleCommitments(r, username, header, body, keys, 4)
  \/ \E r \in Reqs : CacheLock(r)
  \/ \E r \in Reqs : CacheWrite(r)
  \/ \E r \in Reqs, username \in UsernameSet, header \in Headers, body \in Bodies :
       HandleResponse(r, username, header, body, 5)
  \/ \E r \in Reqs : ReadCommitID(r)
  \/ \E r \in Reqs : DoGenerateResponses(r)
  \/ ClearSessions

SpecRespond == InitRespond /\ [][NextRespond]_vars

\* The whole proof flow, one request at a time, with the sweeper: the client
\* verifies its pin again as its JWT ages, so that a session entry can be
\* older than its expiry while the JWT presented is still good.
NextSweep ==
  \/ Tick(ProveTick)
  \/ \E r \in {1} : Finish(r)
  \/ \E r \in {1} : Keep(r)
  \/ \E r \in {1} : HandleVerifyPin(r, "ok", "u1", "12345")
  \/ \E r \in {1} : DoVerifyPinReserve(r)
  \/ \E r \in {1} : DoVerifyPinCheck(r)
  \/ \E r \in {1}, username \in UsernameSet, header \in Headers :
       HandleCommitments(r, username, header, "ok", <<"k1">>, 4)
  \/ \E r \in {1} : CacheLock(r)
  \/ \E r \in {1} : CacheWrite(r)
  \/ \E r \in {1}, username \in UsernameSet, header \in Headers :
       HandleResponse(r, username, header, "ok", 5)
  \/ \E r \in {1} : ReadCommitID(r)
  \/ \E r \in {1} : DoGenerateResponses(r)
  \/ ClearSessions

SpecSweep == InitProve /\ [][NextSweep]_vars

\* Any Authorization header: a JWT the client holds, a forged one or none,
\* behind no "Bearer ", one, or more.
AnyHeaders == {[bearer |-> n, token |-> j] : n \in 0 .. MaxBearer, j \in Auths}

\* The authenticated routes under every header, for users the store has and
\* one it does not have, one request at a time.
NextAuth ==
  \/ Tick(ProveTick)
  \/ \E r \in {1} : Finish(r)
  \/ \E r \in {1}, username \in UsernameSet \cup {"u3"}, header \in AnyHeaders :
       HandleValidate(r, username, header)
  \/ \E r \in {1}, username \in {"u1", "u3"}, header \in AnyHeaders,
        keys \in {<<>>, <<"k1">>} :
       HandleCommitments(r, username, header, "ok", keys, 4)
  \/ \E r \in {1} : CacheLock(r)
  \/ \E r \in {1} : CacheWrite(r)
  \/ \E r \in {1}, username \in {"u1", "u3"}, header \in AnyHeaders, body \in Bodies :
       HandleResponse(r, username, header, body, 5)
  \/ \E r \in {1} : ReadCommitID(r)
  \/ \E r \in {1} : DoGenerateResponses(r)

SpecAuth == InitRespond /\ [][NextAuth]_vars

\* The issuer keys of the configuration after an update of the scheme.
ConfKeys == {"k1", "k2"}

\* The proof requests of u1, two at a time, while the update listener of the
\* configuration loads issuer keys into the core.
NextReload ==
  \/ \E r \in Reqs : Finish(r)
  \/ \E r \in Reqs, header \in Headers, keys \in {<<"k1">>, <<"k2">>} :
       HandleCommitments(r, "u1", header, "ok", keys, 4)
  \/ \E r \in Reqs : CacheLock(r)
  \/ \E r \in Reqs : CacheWrite(r)
  \/ \E r \in Reqs, header \in Headers : HandleResponse(r, "u1", header, "ok", 5)
  \/ \E r \in Reqs : ReadCommitID(r)
  \/ \E r \in Reqs : DoGenerateResponses(r)
  \/ \E r \in Reqs : ConcurrentMapRead(r)
  \/ \E k \in ConfKeys : LoadIdemixKeys(k)
  \/ DangerousAddTrustedPublicKey
  \/ LoadIdemixKeysNext

SpecReload == InitRespond /\ [][NextReload]_vars

\* The server of InitRespond with stores that can fail.
InitBook ==
  /\ InitCommon
  /\ maxPinTries = 3
  /\ dbFails = TRUE
  /\ emailServer = "smtp"
  /\ nonces = 0
  /\ db = ("u1" :> Registered(2, -1)) @@ ("u2" :> Registered(3, -2))
  /\ pinOf = [u \in UsernameSet |-> "12345"]
  /\ prevPin = [u \in UsernameSet |-> ""]
  /\ ladder = [u \in UsernameSet |-> LadderOff]
  /\ issued = {SignJWT("u1", Registered(2, -1).coredata, 0)}

\* verifyPin and the proof requests of u1, one at a time, any call of a store
\* failing or not.
NextBook ==
  \/ \E r \in {1} : Finish(r)
  \/ \E r \in {1}, pin \in Pins : HandleVerifyPin(r, "ok", "u1", pin)
  \/ \E r \in {1} : DoVerifyPinReserve(r)
  \/ \E r \in {1} : DoVerifyPinCheck(r)
  \/ \E r \in {1}, header \in Headers :
       HandleCommitments(r, "u1", header, "ok", <<"k1">>, 4)
  \/ \E r \in {1} : CacheLock(r)
  \/ \E r \in {1} : CacheWrite(r)
  \/ \E r \in {1}, header \in Headers : HandleResponse(r, "u1", header, "ok", 5)
  \/ \E r \in {1} : ReadCommitID(r)
  \/ \E r \in {1} : DoGenerateResponses(r)

SpecBook == InitBook /\ [][NextBook]_vars

\* The server right after New with a commitment store that can fail, and two
\* clients that each hold the JWT a verifyPin gave them at time 0.
InitCache ==
  /\ InitCommon
  /\ maxPinTries = 3
  /\ dbFails = TRUE
  /\ emailServer = "smtp"
  /\ nonces = 0
  /\ db = ("u1" :> Registered(2, -1)) @@ ("u2" :> Registered(3, -2))
  /\ pinOf = [u \in UsernameSet |-> "12345"]
  /\ prevPin = [u \in UsernameSet |-> ""]
  /\ ladder = [u \in UsernameSet |-> LadderOff]
  /\ issued = {SignJWT("u1", Registered(2, -1).coredata, 0),
               SignJWT("u2", Registered(3, -2).coredata, 0)}

\* getCommitments of both users, two at a time, with every body, key list and
\* header, beside the sweeper.
NextCache ==
  \/ Tick(ProveTick)
  \/ \E r \in Reqs : Finish(r)
  \/ \E r \in Reqs, username \in UsernameSet, header \in Headers, body \in Bodies,
        keys \in {<<>>, <<"k1">>, <<"k2">>} :
       HandleCommitments(r, username, header, body, keys, 4)
  \/ \E r \in Reqs : CacheLock(r)
  \/ \E r \in Reqs : CacheWrite(r)
  \/ ClearSessions

SpecCache == InitCache /\ [][NextCache]_vars

\* The keyshare server right after New, idle: the state it stays in while the
\* credential manager or the session server is looked at.
InitKeyshare ==
  /\ InitServer
  /\ issued = {}
  /\ maxPinTries = 3
  /\ dbFails = FALSE
  /\ emailServer = "smtp"
  /\ nonces = 0
  /\ db = [u \in UsernameSet |-> NoUser]
  /\ pinOf = [u \in UsernameSet |-> ""]
  /\ prevPin = [u \in UsernameSet |-> ""]
  /\ ladder = [u \in UsernameSet |-> LadderOff]

\* A storage directory before the credential manager starts on it: empty, or
\* left by a release that had one update function, which ran then and
\* succeeded or failed.
InitStore ==
  /\ InitKeyshare
  /\ InitSessionServer
  /\ save = NoSave
  /\ cm = NoManager
  /\ \/ /\ files = [p \in {} |-> <<>>]
        /\ executed = [i \in UpdateNumbers |-> 0]
     \/ \E ok \in BOOLEAN :
          /\ files = WithFile([p \in {} |-> <<>>], updatesFile,
                              MarshalUpdates(<<Update(0, ok)>>))
          /\ executed = [i \in UpdateNumbers |-> IF i = 0 THEN 1 ELSE 0]

\* The credential manager started on the storage, run, and ended, time and
\* again; any call of the file system failing or not.
NextStore ==
  \/ NewCredentialManager
  \/ UpdateLoad
  \/ UpdatePerform
  \/ UpdateSave
  \/ SaveFileRand
  \/ WriteFileCreate
  \/ WriteFileWrite
  \/ SaveFileRename
  \/ UpdateReturn
  \/ LoadSecretKey
  \/ StoreSecretKeyReturn
  \/ Exit

SpecStore == InitStore /\ [][NextStore]_vars

\* The session server right after New; requestors start and cancel sessions,
\* clients send their messages.
InitSessions ==
  /\ InitKeyshare
  /\ InitManager
  /\ InitSessionServer

ClientMethods == {"GET", "POST", "DELETE"}
ClientNouns == {"", "status", "proofs"}

NextSessions ==
  \/ \E handler \in {"nil", "handler"} : StartSession(handler)
  \/ \E n \in 1 .. MaxSessions : CancelSession(RequestorToken(n))
  \/ \E n \in 1 .. MaxSessions, method \in ClientMethods, noun \in ClientNouns,
        ok \in BOOLEAN :
       HandleClientMessage(ClientToken(n), method, noun, ok)

SpecSessions == InitSessions /\ [][NextSessions]_vars

\* The server after a restart with a rotated configuration: the core is
\* constructed with key 2 as its decryption key, and the row of u1 holds a
\* blob made under key 1 before the rotation.
InitKeys ==
  /\ InitManager
  /\ InitSessionServer
  /\ now = 0
  /\ decryptionKeyID = 2
  /\ decryptionKey = "aesB"
  /\ decryptionKeys = (2 :> "aesB")
  /\ trustedKeys = {"k1"}
  /\ reload = ""
  /\ commitments = [c \in {} |-> 0]
  /\ commitIDs = 0
  /\ responded = [c \in {} |-> 0]
  /\ commitBy = [c \in {} |-> 0]
  /\ sessions = [u \in {} |-> 0]
  /\ heap = <<>>
  /\ sessionLock = 0
  /\ req = [r \in Reqs |-> IdleReq]
  /\ grants = [u \in UsernameSet |-> 0]
  /\ issued = {}
  /\ maxPinTries = 3
  /\ dbFails = FALSE
  /\ emailServer = "smtp"
  /\ nonces = 0
  /\ db = ("u1" :> [Registered(2, -1) EXCEPT !.coredata.keyID = 1,
                                             !.coredata.key = "aesA"])
          @@ ("u2" :> NoUser)
  /\ pinOf = ("u1" :> "12345") @@ ("u2" :> "")
  /\ prevPin = [u \in UsernameSet |-> ""]
  /\ ladder = [u \in UsernameSet |-> LadderOff]

\* The pin requests, one at a time, while keys are added to the core.
NextKeys ==
  \/ \E r \in {1} : Finish(r)
  \/ \E r \in {1} : HandleRegister(r, Usernames, "ok", "12345", 3, NoEmail)
  \/ \E r \in {1}, pin \in Pins : HandleVerifyPin(r, "ok", "u1", pin)
  \/ \E r \in {1} : DoVerifyPinReserve(r)
  \/ \E r \in {1} : DoVerifyPinCheck(r)
  \/ \E r \in {1} : HandleChangePin(r, "ok", "u1", "12345", "54321")
  \/ \E r \in {1} : DoUpdatePinReserve(r)
  \/ \E r \in {1} : DoUpdatePinChange(r)
  \/ \E keyID \in {1, 2}, key \in {"aesA", "aesB"} :
       DangerousAddDecryptionKey(keyID, key)

SpecKeys == InitKeys /\ [][NextKeys]_vars

\* The server right after New, with collaborators that can fail: the stores,
\* the mailer, the issuance session server, the core's source of randomness.
InitFail ==
  /\ InitCommon
  /\ issued = {}
  /\ maxPinTries = 3
  /\ dbFails = TRUE
  /\ emailServer \in {"", "smtp"}
  /\ nonces = 0
  /\ db = [u \in UsernameSet |-> NoUser]
  /\ pinOf = [u \in UsernameSet |-> ""]
  /\ prevPin = [u \in UsernameSet |-> ""]
  /\ ladder = [u \in UsernameSet |-> LadderOff]

\* Registration and the pin requests, one at a time, any call of a
\* collaborator failing or not.
NextFail ==
  \/ \E r \in {1} : Finish(r)
  \/ \E r \in {1}, body \in Bodies, pin \in {"12345", LongPin}, email \in Emails :
       HandleRegister(r, Usernames, body, pin, 2, email)
  \/ \E r \in {1}, pin \in Pins : HandleVerifyPin(r, "ok", "u1", pin)
  \/ \E r \in {1} : DoVerifyPinReserve(r)
  \/ \E r \in {1} : DoVerifyPinCheck(r)
  \/ \E r \in {1}, newPin \in {"54321", LongPin} :
       HandleChangePin(r, "ok", "u1", "12345", newPin)
  \/ \E r \in {1} : DoUpdatePinReserve(r)
  \/ \E r \in {1} : DoUpdatePinChange(r)

SpecFail == InitFail /\ [][NextFail]_vars

\* ------------------------------------------------------------ properties
\* The request has got as far as the comparison of its pin by the core.
Compared(q) ==
  \/ q.pc \in {"check", "change"}
  \/ Called(q, "ValidatePin")
  \/ Called(q, "ChangePin")

LadderReply(k) ==
  IF k = 1 THEN StatusReply("failure", "2")
  ELSE IF k = 2 THEN StatusReply("failure", "1")
  ELSE StatusReply("error", "60")

\* A verifyPin on the ladder of its user, all of whose rungs are verifyPin
\* requests, under the budget {3 tries, backoff 60 s}.
OnLadder(q) ==
  /\ q.kind = "verifyPin"
  /\ q.pc = "done"
  /\ q.rung >= 1
  /\ maxPinTries = 3
  /\ PinBackoff = 60
  /\ ladder[q.username].mix = 0

\* The row's try counter is back at the full budget.
CounterReset(u) == db[u].pincheckCount = 0 /\ db[u].pincheckBlockedUntil = 0

\* C9: PIN lockout ladder.  For a fresh user with budget {3 tries, backoff
\* 60 s}, three consecutive verifyPin requests with a wrong pin answer
\* ("failure","2"), ("failure","1"), ("error","60"); a verifyPin with the
\* right pin during the wait answers ("error","60") and no JWT; once the 60 s
\* are over a verifyPin with the right pin answers ("success", jwt) and the
\* row's try counter is reset.
C9_LockoutLadder ==
  \A r \in Reqs :
    LET q == req[r]
    IN OnLadder(q) =>
         /\ q.rung \in 1 .. 3 => q.reply = LadderReply(q.rung)
         /\ q.rung = 4 =>
              /\ q.reply = StatusReply("error", "60")
              /\ ~Called(q, "ValidatePin")
         /\ q.rung \in {5, 6} =>
              /\ q.reply.status = "success" /\ q.reply.jwt # NoJWT
              /\ CounterReset(q.username)

\* The whole ladder has been climbed: the right pin succeeds after the wait,
\* and it had been tried during the wait.
C9_Witness ==
  \E r \in Reqs : OnLadder(req[r]) /\ req[r].rung = 5

\* C10: changePin shares the lockout budget.  A changePin whose reservation
\* was allowed and whose old pin is wrong calls neither ClearPincheck nor
\* UpdateUser; when it is the k-th wrong attempt in a row on the user (of
\* verifyPin and changePin requests alike, budget 3) the reservation gave it
\* 3 - k tries left, the row's counter still stands at k when the reply is
\* written, and with k = 3 the row is blocked for the backoff, as after three
\* wrong verifyPin requests.
C10_ChangePinSharesBudget ==
  \A r \in Reqs :
    LET q == req[r]
        u == q.username
    IN (/\ q.kind = "changePin" /\ q.pc = "done" /\ q.reserved = "allowed"
        /\ q.pin # q.truePin) =>
         /\ ~Called(q, "ClearPincheck")
         /\ ~Called(q, "UpdateUser")
         /\ q.reply.status # "success"
         /\ q.rung \in 1 .. 3 =>
              /\ q.tries = maxPinTries - q.rung
              /\ db[u].pincheckCount = q.rung
              /\ q.rung = 3 <=> db[u].pincheckBlockedUntil = q.at + PinBackoff
              /\ Len(q.newPin) <= MaxPinLen => q.reply = LadderReply(q.rung)

\* A changePin with a wrong old pin takes the last try, after one verifyPin
\* and one changePin with a wrong pin.
C10_Witness ==
  \E r \in Reqs :
    /\ req[r].kind = "changePin"
    /\ req[r].pc = "done"
    /\ req[r].rung = 3
    /\ ladder[req[r].username].mix = 2
    /\ now < db[req[r].username].pincheckBlockedUntil

\* C1: at-most-once commitment.  For every commitID at most one call of
\* Core.GenerateResponse, over all getResponse requests and their
\* interleavings, returns a response scalar, and the commitment is then out
\* of the store; every other call made with a JWT that validates fails with
\* InvalidCommit.
C1_AtMostOnceCommitment ==
  /\ \A id \in DOMAIN responded : responded[id] <= 1 /\ id \notin DOMAIN commitments
  /\ \A r \in Reqs :
       LET q == req[r]
       IN (q.kind = "getResponse" /\ q.pc = "done" /\ Called(q, "GenerateResponse")) =>
            IF q.reply.response >= 0
            THEN /\ q.commitID \in DOMAIN responded
                 /\ q.reply.code = "ok"
            ELSE /\ q.reply.code # "ok"
                 /\ ValidateJWT(q.blob, q.auth, now) = "nil" =>
                      q.reply = ErrorReply("Internal", "InvalidCommit")

\* Two getResponse requests have read the same commitID from the same cache
\* entry; one has been given the response, the other is about to call the core.
C1_Witness ==
  \E r1 \in Reqs, r2 \in Reqs :
    /\ r1 # r2
    /\ req[r1].kind = "getResponse" /\ req[r1].pc = "done"
    /\ req[r1].reply.response >= 0
    /\ req[r2].kind = "getResponse" /\ req[r2].pc = "respond"
    /\ req[r2].commitID = req[r1].commitID
    /\ req[r2].sess = req[r1].sess

\* C4 as the specification states it: the JWT presented is bound to the
\* user's blob as it is when the response is given, and is the JWT the
\* getCommitments behind the commitID was made with.
C4_ProtocolOrderAsStated ==
  \A r \in Reqs :
    LET q == req[r]
    IN (q.kind = "getResponse" /\ q.pc = "done" /\ q.reply.response >= 0) =>
         /\ q.held
         /\ now <= q.auth.exp
         /\ q.auth.tid = TokenID(db[q.username].coredata)
         /\ q.commitID \in DOMAIN commitBy
         /\ commitBy[q.commitID].username = q.username
         /\ commitBy[q.commitID].auth = q.auth
         /\ responded[q.commitID] = 1

\* C4: protocol order.  A getResponse request for user u is given a response
\* scalar only if (1) the JWT it presents came from a successful verifyPin for
\* u, is unexpired and is bound to the blob of u the request fetched, and (2)
\* a getCommitments for u, made with a JWT of a successful verifyPin for u
\* (this one or another), succeeded before, and its commitID had not been
\* consumed.  No response scalar is given without such a JWT.
C4_ProtocolOrder ==
  \A r \in Reqs :
    LET q == req[r]
    IN (q.kind = "getResponse" /\ q.pc = "done" /\ q.reply.response >= 0) =>
         /\ q.held
         /\ now <= q.auth.exp
         /\ q.auth.tid = TokenID(q.blob)
         /\ q.valid
         /\ q.commitID \in DOMAIN commitBy
         /\ commitBy[q.commitID].username = q.username
         /\ commitBy[q.commitID].held
         /\ responded[q.commitID] = 1

\* A response scalar has been given: w + challenge * s for u1.
C4_Witness ==
  \E r \in Reqs :
    /\ req[r].kind = "getResponse"
    /\ req[r].pc = "done"
    /\ req[r].reply.response = 4 + 5 * 2
    /\ req[r].username = "u1"

\* The JWT came from a verifyPin of the request's user, and the blob the
\* request fetched is not the one it was issued for: a changePin of the user
\* has succeeded since.
Stale(q) == q.held /\ q.auth.tid # TokenID(q.blob)

\* C5: change PIN invalidates the old JWT.  A getCommitments, getResponse or
\* isAuthorized request that presents a JWT of its user issued before a
\* changePin of that user succeeded is treated as unauthorized: isAuthorized
\* answers "expired", getCommitments InvalidRequest and no commitment,
\* getResponse InvalidRequest and no response.
C5_ChangePinInvalidatesJWT ==
  \A r \in Reqs :
    LET q == req[r]
    IN (q.pc = "done" /\ Stale(q)) =>
         /\ ~q.valid
         /\ q.kind = "isAuthorized" => q.reply = KeyshareAuthorization(FALSE)
         /\ q.kind = "getCommitments" =>
              /\ q.reply = ErrorReply("InvalidRequest", "InvalidJWT")
              /\ q.commitID = 0
         /\ q.kind = "getResponse" =>
              /\ q.reply = ErrorReply("InvalidRequest", "Invalid authorization")
              /\ ~Called(q, "GenerateResponse")

\* A getCommitments is refused with a JWT that has not expired and was issued
\* before the pin was changed.
C5_Witness ==
  \E r \in Reqs :
    /\ req[r].kind = "getCommitments"
    /\ req[r].pc = "done"
    /\ Stale(req[r])
    /\ now <= req[r].auth.exp
    /\ pinOf[req[r].username] = "54321"

\* C6: no leak of commit-session existence.  A getResponse request whose
\* authorization is not valid is answered by what the request alone decides
\* (InvalidRequest "Invalid authorization" when its body parses), whether or
\* not the session cache holds an entry for the user, and its calls are those
\* of the two middlewares: no read of the session cache, no SetSeen, no
\* AddLog, no call of the core that consumes a commitment.
C6_NoSessionLeak ==
  \A r \in Reqs :
    LET q == req[r]
    IN (q.kind = "getResponse" /\ Called(q, "ValidateJWT") /\ ~q.valid) =>
         /\ q.pc = "done"
         /\ q.calls = <<"User", "ValidateJWT">>
         /\ ~q.found /\ q.sess = 0 /\ q.commitID = 0
         /\ q.reply = IF q.body = "ok"
                      THEN ErrorReply("InvalidRequest", "Invalid authorization")
                      ELSE ErrorReply("InvalidRequest", "parse")

\* A getResponse with a forged JWT is turned away while the cache holds an
\* entry of its user with a live commitment.
C6_Witness ==
  \E r \in Reqs :
    /\ req[r].kind = "getResponse"
    /\ req[r].pc = "done"
    /\ ~req[r].valid
    /\ req[r].auth.sig = "forged"
    /\ req[r].body = "ok"
    /\ req[r].username \in DOMAIN sessions
    /\ heap[sessions[req[r].username]].LastCommitID \in DOMAIN commitments

\* C11: successful changePin.  A changePin whose reservation was allowed, whose
\* old pin is the pin of the row it fetched and whose new pin is within the
\* cap calls ClearPincheck and then UpdateUser, answers "success", and leaves
\* the row with the new blob (the new pin's hash) and a cleared pincheck
\* state.  A later verifyPin that fetched a row written by a changePin
\* succeeds with the new pin, and with the old pin (when different) is
\* treated as a wrong pin: no JWT, PinCheckFailed logged.
C11_SuccessfulChangePin ==
  \A r \in Reqs :
    LET q == req[r]
    IN /\ (/\ q.kind = "changePin" /\ q.pc = "done" /\ q.reserved = "allowed"
           /\ q.pin = q.truePin /\ Len(q.newPin) <= MaxPinLen) =>
            /\ q.calls = <<"User", "ReservePincheck", "ChangePin", "ClearPincheck",
                           "UpdateUser">>
            /\ q.reply = StatusReply("success", "")
            /\ db[q.username].coredata = q.blob
            /\ db[q.username].coredata.pinHash = Hash(q.newPin)
            /\ CanDecrypt(db[q.username].coredata)
            /\ db[q.username].pincheckCount = 0
            /\ db[q.username].pincheckBlockedUntil = 0
       /\ (/\ q.kind = "verifyPin" /\ q.pc = "done" /\ q.reserved = "allowed"
           /\ q.prev # "") =>
            /\ q.blob.pinHash = Hash(q.truePin)
            /\ q.pin = q.truePin =>
                 q.reply.status = "success" /\ q.reply.jwt # NoJWT
            /\ (q.pin = q.prev /\ q.prev # q.truePin) =>
                 /\ q.reply.jwt = NoJWT
                 /\ q.reply.status \in {"failure", "error"}
                 /\ Called(q, "AddLog:PinCheckFailed")
                 /\ ~Called(q, "ClearPincheck")

\* After a changePin from 12345 to 54321 a verifyPin with the old pin has been
\* answered as a wrong pin.
C11_Witness ==
  \E r \in Reqs :
    /\ req[r].kind = "verifyPin"
    /\ req[r].pc = "done"
    /\ req[r].reserved = "allowed"
    /\ req[r].prev = "12345"
    /\ req[r].truePin = "54321"
    /\ req[r].pin = "12345"
    /\ req[r].reply.status = "failure"

\* A getResponse that reached the core with a JWT valid there and was given no
\* response scalar, for a commitID another getResponse has been answered on:
\* the re-post of a challenge after a success, no getCommitments in between.
Reposted(q) ==
  /\ q.kind = "getResponse" /\ q.pc = "done"
  /\ Called(q, "GenerateResponse")
  /\ ValidateJWT(q.blob, q.auth, now) = "nil"
  /\ q.reply.response < 0
  /\ q.commitID \in DOMAIN responded
  /\ responded[q.commitID] = 1

\* C12: second response is rejected.  After a getResponse of user u has
\* succeeded, the re-post of the challenge with the same valid JWT, no
\* getCommitments in between, is answered 400 InvalidRequest, and the commitID
\* the session cache names for u is not in the commitment store.
C12_SecondResponseRejected ==
  \A r \in Reqs :
    LET q == req[r]
    IN Reposted(q) =>
         /\ q.reply.code = "InvalidRequest"
         /\ q.commitID \notin DOMAIN commitments
         /\ (/\ q.username \in DOMAIN sessions
             /\ heap[sessions[q.username]].LastCommitID = q.commitID) =>
              heap[sessions[q.username]].LastCommitID \notin DOMAIN commitments

\* C13: getResponse without a preceding getCommitments.  A getResponse with a
\* valid authorization and a well-formed body, for a user the session cache
\* has no entry for, is answered InvalidRequest "Missing previous call to
\* getCommitments" in the step that looks the session up; it calls neither
\* Core.GenerateResponse nor SetSeen nor AddLog, and no commitment is consumed.
C13_NoPrecedingCommitments ==
  [][\A r \in Reqs :
       LET q == req'[r]
       IN (/\ req[r].pc = "idle" /\ q.kind = "getResponse"
           /\ q.valid /\ q.body = "ok"
           /\ q.username \notin DOMAIN sessions) =>
            /\ q.pc = "done"
            /\ q.reply = ErrorReply("InvalidRequest",
                                    "Missing previous call to getCommitments")
            /\ ~Called(q, "GenerateResponse")
            /\ ~Called(q, "SetSeen")
            /\ ~Called(q, AddLog("IrmaSession", TRUE))
            /\ commitments' = commitments
            /\ responded' = responded
            /\ db' = db
            /\ sessions' = sessions]_vars

\* An authorized getResponse has been answered for a user without a session.
C13_Witness ==
  \E r \in Reqs :
    /\ req[r].kind = "getResponse"
    /\ req[r].pc = "done"
    /\ req[r].valid
    /\ req[r].body = "ok"
    /\ req[r].username \notin DOMAIN sessions
    /\ req[r].reply.message = "Missing previous call to getCommitments"
    /\ commitments # <<>>

\* The session entries the cache holds whose expiry is past.
Expired == {u \in DOMAIN sessions : now > heap[sessions[u]].expiry}

\* A step that writes a session entry gives it the expiry now + 10 s.
WritesExpiry ==
  \A r \in Reqs :
    (req[r].pc = "write" /\ req'[r].pc = "done") =>
      /\ heap'[req[r].sess].expiry = now + SessionExpirySeconds
      /\ heap'[req[r].sess].LastCommitID = req[r].commitID
      /\ sessions'[req[r].username] = req[r].sess

\* A step that deletes session entries deletes the expired ones, all of
\* them, and leaves the others as they were.
SweepsExpired ==
  (DOMAIN sessions' # DOMAIN sessions /\ DOMAIN sessions' \subseteq DOMAIN sessions) =>
    /\ DOMAIN sessions' = DOMAIN sessions \ Expired
    /\ \A u \in DOMAIN sessions' : sessions'[u] = sessions[u]
    /\ heap' = heap

\* The step in which request r, a getResponse with a valid authorization and
\* a well-formed body, looks its user's session up.
LooksUp(r) ==
  /\ req[r].pc = "idle" /\ req'[r].kind = "getResponse"
  /\ req'[r].valid /\ req'[r].body = "ok"

\* C14 as the specification states it: entries are written with expiry
\* t + 10 s, a sweep deletes exactly the expired entries, and a getResponse
\* issued after its user's entry expired is answered as a missing previous
\* call to getCommitments.
C14_SessionCacheExpiryAsStated ==
  [][/\ WritesExpiry
     /\ SweepsExpired
     /\ \A r \in Reqs :
          (LooksUp(r) /\ req'[r].username \in Expired) =>
            /\ req'[r].pc = "done"
            /\ req'[r].reply.message = "Missing previous call to getCommitments"]_vars

\* C14: session cache expiry.  An entry written by getCommitments at time t
\* has expiry t + 10 s; a sweep deletes exactly the entries whose expiry is
\* past and leaves the others unchanged; a getResponse is answered as a
\* missing previous call to getCommitments exactly when the cache holds no
\* entry of its user, so an expired entry is out of use once a sweep has
\* deleted it and is used until then.
C14_SessionCacheExpiry ==
  [][/\ WritesExpiry
     /\ SweepsExpired
     /\ \A r \in Reqs :
          LooksUp(r) =>
            IF req'[r].username \in DOMAIN sessions
            THEN req'[r].pc = "read" /\ req'[r].sess = sessions[req'[r].username]
            ELSE /\ req'[r].pc = "done"
                 /\ req'[r].reply.message = "Missing previous call to getCommitments"]_vars

\* A getResponse has been given a response scalar on an entry whose expiry
\* was past when the core was called: no sweep had deleted it.
C14_Witness ==
  \E r \in Reqs :
    /\ req[r].kind = "getResponse"
    /\ req[r].pc = "done"
    /\ req[r].reply.response >= 0
    /\ req[r].username \in Expired
    /\ sessions[req[r].username] = req[r].sess

\* Some requested key is not in the trusted-key table.
Untrusted(keys) == \E i \in 1 .. Len(keys) : keys[i] \notin trustedKeys

\* C15: unknown issuer key refusal.  A getCommitments with a valid JWT and a
\* non-empty key list fails exactly when some requested key is not trusted;
\* it is then answered InvalidRequest, returns no commitment for any of the
\* keys, and adds no entry to the commitment store.
C15_UnknownKeyRefusal ==
  \A r \in Reqs :
    LET q == req[r]
    IN (/\ q.kind = "getCommitments" /\ q.pc = "done"
        /\ Called(q, "GenerateCommitments")
        /\ q.valid /\ Len(q.keys) >= 1) =>
         /\ (q.reply.code # "ok") <=> Untrusted(q.keys)
         /\ Untrusted(q.keys) =>
              /\ q.reply.code = "InvalidRequest"
              /\ q.reply.commitments = EmptyCommitments
              /\ q.commitID = 0

\* C16: empty key list.  A getCommitments whose body is an empty key array is
\* answered 400 InvalidRequest in the step that reads the body: the core is
\* not called, and nothing is stored, in the commitment store or the cache.
C16_EmptyKeyList ==
  [][\A r \in Reqs :
       LET q == req'[r]
       IN (/\ req[r].pc = "idle" /\ q.kind = "getCommitments"
           /\ q.body = "ok" /\ q.keys = <<>>) =>
            /\ q.pc = "done"
            /\ q.reply = ErrorReply("InvalidRequest", "No key specified")
            /\ ~Called(q, "GenerateCommitments")
            /\ commitments' = commitments
            /\ commitIDs' = commitIDs
            /\ sessions' = sessions
            /\ heap' = heap]_vars

\* An authorized getCommitments with an empty key array has been answered.
C16_Witness ==
  \E r \in Reqs :
    /\ req[r].kind = "getCommitments"
    /\ req[r].pc = "done"
    /\ req[r].valid
    /\ req[r].body = "ok"
    /\ req[r].keys = <<>>
    /\ req[r].reply.code = "InvalidRequest"

\* The key IDs a step loads or loads anew.
AddedKeys ==
  {k \in DOMAIN decryptionKeys' :
     k \notin DOMAIN decryptionKeys \/ decryptionKeys'[k] # decryptionKeys[k]}

\* A step that writes a blob to a row writes one that carries the ID of the
\* key the core encrypts with, made with that key.
BlobsCarryCurrentKey ==
  \A u \in UsernameSet :
    db'[u].coredata # db[u].coredata =>
      /\ db'[u].coredata.keyID = decryptionKeyID
      /\ db'[u].coredata.key = decryptionKey

\* C17 as the specification states it: a step that adds an AES key leaves
\* every key ID loaded before loaded with the same key, and the key added is
\* from then on the one whose ID the blobs of GenerateKeyshareSecret and
\* ChangePin carry.
C17_KeyRotationAsStated ==
  [][/\ \A k \in DOMAIN decryptionKeys :
          k \in DOMAIN decryptionKeys' /\ decryptionKeys'[k] = decryptionKeys[k]
     /\ decryptionKeys' # decryptionKeys => AddedKeys = {decryptionKeyID'}
     /\ BlobsCarryCurrentKey]_vars

\* C17: key rotation.  A step that adds an AES key under an ID leaves every
\* other key ID loaded before loaded with the same key, and leaves the key
\* the core encrypts with and its ID as the construction of the core set
\* them; blobs made afterwards by GenerateKeyshareSecret and ChangePin carry
\* that ID, the key-ID of Configuration.DecryptionKey.
C17_KeyRotation ==
  [][/\ decryptionKeys' # decryptionKeys =>
          \E id \in DOMAIN decryptionKeys' :
            /\ AddedKeys = {id}
            /\ DOMAIN decryptionKeys' = DOMAIN decryptionKeys \cup {id}
            /\ \A k \in DOMAIN decryptionKeys \ {id} :
                 decryptionKeys'[k] = decryptionKeys[k]
     /\ decryptionKey' = decryptionKey
     /\ decryptionKeyID' = decryptionKeyID
     /\ BlobsCarryCurrentKey]_vars

\* With key 1 added beside the current key 2, the pin of the blob made under
\* key 1 has been changed and the row's new blob carries key ID 2.
C17_Witness ==
  \E r \in Reqs :
    /\ req[r].kind = "changePin"
    /\ req[r].pc = "done"
    /\ req[r].username = "u1"
    /\ req[r].reply.status = "success"
    /\ prevPin["u1"] = "12345"
    /\ db["u1"].coredata.keyID = 2
    /\ decryptionKeys = (1 :> "aesA") @@ (2 :> "aesB")

\* C18: PinTooLong on changePin.  A changePin whose reservation was allowed
\* and whose new pin is longer than the cap is answered with a 400, a reply
\* that is neither the success nor a wrong-pin reply, and the blob of the
\* user's row is the one it was.
C18_PinTooLongOnChangePin ==
  \A r \in Reqs :
    LET q == req[r]
    IN (/\ q.kind = "changePin" /\ q.pc = "done" /\ q.reserved = "allowed"
        /\ Len(q.newPin) > MaxPinLen) =>
         /\ q.reply.code = "InvalidRequest"
         /\ q.reply.status \notin {"success", "failure", "error"}
         /\ db[q.username].coredata.pinHash = Hash(pinOf[q.username])
         /\ db[q.username].coredata.pinHash # Hash(q.newPin)
         /\ ~Called(q, "UpdateUser")

\* C19: registration error mapping.  A register request is answered 400
\* exactly when its body is malformed or GenerateKeyshareSecret failed with
\* PinTooLong; any other failure (another error of the core, NewUser, the
\* email, the start of the issuance session) is answered 500; the QR pointer
\* is returned exactly when every step succeeded.
C19_RegistrationErrorMapping ==
  \A r \in Reqs :
    LET q == req[r]
        failed == \E i \in 1 .. Len(q.calls) :
                    q.calls[i] \in {"GenerateKeyshareSecret:Random", "NewUser:error",
                                    "sendRegistrationEmail:error", "StartSession:error"}
        tooLong == Called(q, "GenerateKeyshareSecret:PinTooLong")
    IN (q.kind = "register" /\ q.pc = "done") =>
         /\ q.reply.code \in {"InvalidRequest", "Internal", "ok"}
         /\ q.reply.code = "InvalidRequest" <=> (q.body = "malformed" \/ tooLong)
         /\ q.reply.code = "Internal" <=> failed
         /\ q.reply.code = "ok" <=> q.reply.message = "sessionptr"
         /\ q.reply.code = "ok" <=>
              /\ q.body = "ok"
              /\ Called(q, "GenerateKeyshareSecret")
              /\ Called(q, "NewUser")
              /\ Called(q, "StartSession")
              /\ ~failed
         /\ tooLong <=> (q.body = "ok" /\ Len(q.pin) > MaxPinLen
                          /\ ~Called(q, "GenerateKeyshareSecret:Random"))

\* A registration whose email could not be sent has been answered 500, the
\* user's row already stored.
C19_Witness ==
  \E r \in Reqs :
    /\ req[r].kind = "register"
    /\ req[r].pc = "done"
    /\ Called(req[r], "sendRegistrationEmail:error")
    /\ req[r].reply.code = "Internal"
    /\ db[req[r].username].exists

\* ---------------------------------------------------------------------------
\* The routes behind userMiddleware and authorizationMiddleware.
AuthRoutes == {"isAuthorized", "getCommitments", "getResponse"}

\* Request r has just passed userMiddleware on one of those routes.
PassedUserMiddleware(r) ==
  /\ req[r].pc = "idle"
  /\ req'[r].kind \in AuthRoutes
  /\ UserOf(req'[r].username).exists

\* The replies the three handlers write for a request without a valid
\* authorization whose body is well formed.
UnauthorizedAnswer(q) ==
  CASE q.kind = "isAuthorized" -> KeyshareAuthorization(FALSE)
    [] q.kind = "getCommitments" ->
         IF q.keys = <<>> THEN ErrorReply("InvalidRequest", "No key specified")
         ELSE ErrorReply("InvalidRequest", "InvalidJWT")
    [] q.kind = "getResponse" -> ErrorReply("InvalidRequest", "Invalid authorization")

\* C20: authorizationMiddleware never rejects.  A request that passed
\* userMiddleware reaches its handler with the authorization equal to the
\* Authorization header less one leading "Bearer ", with
\* hasValidAuthorization true exactly when Core.ValidateJWT of the user's
\* current blob and that authorization gave no error; the middleware writes
\* no response, so a request without a valid authorization is answered by
\* its handler.
C20_AuthorizationMiddlewareNeverRejects ==
  [][\A r \in Reqs : PassedUserMiddleware(r) =>
       LET q == req'[r]
       IN /\ q.authorization.token = q.header.token
          /\ q.authorization.bearer =
               (IF q.header.bearer > 0 THEN q.header.bearer - 1 ELSE 0)
          /\ q.auth = (IF q.authorization.bearer = 0 THEN q.authorization.token ELSE NoJWT)
          /\ q.blob = db[q.username].coredata
          /\ q.valid <=> (ValidateJWT(db[q.username].coredata, q.auth, now) = "nil")
          /\ Called(q, "ValidateJWT")
          /\ q.reply.code # "UserNotRegistered"
          /\ (~q.valid /\ q.body # "malformed") =>
               (q.pc = "done" /\ q.reply = UnauthorizedAnswer(q))]_vars

\* A getCommitments whose header carries "Bearer " twice over a JWT the
\* client holds: the handler, not the middleware, answers it.
C20_Witness ==
  \E r \in Reqs :
    /\ req[r].kind = "getCommitments"
    /\ req[r].pc = "done"
    /\ req[r].header.bearer = 2
    /\ req[r].authorization.bearer = 1
    /\ req[r].header.token \in issued
    /\ ~req[r].valid
    /\ req[r].reply = ErrorReply("InvalidRequest", "InvalidJWT")

\* ---------------------------------------------------------------------------
\* Request r has just been stopped by userMiddleware: its route is behind the
\* middleware and the store has no user of its name.
StoppedByUserMiddleware(r) ==
  /\ req[r].pc = "idle"
  /\ req'[r].kind \in AuthRoutes
  /\ ~UserOf(req'[r].username).exists

\* C21: the gate of userMiddleware.  A request to isAuthorized,
\* getCommitments or getResponse whose username names no user of the store is
\* answered UserNotRegistered; its only call is the lookup of the user
\* (neither authorizationMiddleware's ValidateJWT nor a call of a handler),
\* and the session cache and the commitment store stay as they were.
C21_UserMiddlewareGate ==
  [][\A r \in Reqs : StoppedByUserMiddleware(r) =>
       /\ req'[r].pc = "done"
       /\ req'[r].reply = ErrorReply("UserNotRegistered", "user")
       /\ req'[r].calls = <<"User">>
       /\ ~req'[r].valid /\ req'[r].authorization = NoHeader
       /\ UNCHANGED <<sessions, heap, sessionLock, commitments, commitIDs>>]_vars

\* A getResponse for the unknown user u3, answered UserNotRegistered while an
\* entry of the cache and a commitment exist.
C21_Witness ==
  \E r \in Reqs :
    /\ req[r].kind = "getResponse"
    /\ req[r].username = "u3"
    /\ req[r].pc = "done"
    /\ req[r].reply.code = "UserNotRegistered"
    /\ DOMAIN sessions # {}
    /\ DOMAIN commitments # {}

\* ---------------------------------------------------------------------------
\* C22: isAuthorized is a function of hasValidAuthorization alone.  It
\* answers status "authorized" when hasValidAuthorization is true and
\* "expired" when not, with candidates ["pin"] either way, makes no call of
\* a store (no SetSeen, no AddLog), and leaves the user store, the session
\* cache and the commitment store as they were.
C22_IsAuthorizedPure ==
  [][\A r \in Reqs :
       (PassedUserMiddleware(r) /\ req'[r].kind = "isAuthorized") =>
         /\ req'[r].pc = "done"
         /\ req'[r].reply.code = "ok"
         /\ req'[r].reply.status = (IF req'[r].valid THEN "authorized" ELSE "expired")
         /\ req'[r].reply.candidates = <<"pin">>
         /\ req'[r].reply.message = "" /\ req'[r].reply.jwt = NoJWT
         /\ req'[r].calls = <<"User", "ValidateJWT">>
         /\ UNCHANGED <<db, sessions, heap, sessionLock, commitments, commitIDs,
                        nonces, issued>>]_vars

\* isAuthorized answered "expired" for u1 to a client whose JWT has run out,
\* while the cache holds an entry of u1 and the store a commitment.
C22_Witness ==
  \E r \in Reqs :
    /\ req[r].kind = "isAuthorized"
    /\ req[r].pc = "done"
    /\ req[r].username = "u1"
    /\ req[r].held
    /\ req[r].reply.status = "expired"
    /\ "u1" \in DOMAIN sessions
    /\ DOMAIN commitments # {}

\* ---------------------------------------------------------------------------
\* The commit ID and the key ID a getResponse handed to Core.GenerateResponse
\* are those one getCommitments wrote.
WrittenTogether(q) ==
  /\ q.commitID \in DOMAIN commitBy
  /\ commitBy[q.commitID].key = q.keyID

\* Request r reads a field of a SessionData in this step.
ReadsSessionField(r) ==
  /\ req[r].kind = "getResponse"
  /\ \/ req[r].pc = "read" /\ req'[r].pc = "respond"
     \/ req[r].pc = "respond" /\ req'[r].pc \in {"done", "fatal"}

\* Request r writes a field of a SessionData in this step.
WritesSessionField(r) ==
  /\ req'[r].kind = "getCommitments"
  /\ \/ req[r].pc = "lock" /\ req'[r].pc = "write"
     \/ req[r].pc = "write" /\ req'[r].pc = "done"

\* C23: reads of the session cache are consistent under concurrency.  The
\* (commitID, keyID) a getResponse passes to Core.GenerateResponse is a pair
\* one getCommitments wrote, whatever getCommitments of the user run beside
\* it, and every read and write of a field of an entry is made by a request
\* that holds the session mutex.
C23_ConsistentCacheReads ==
  [][\A r \in Reqs :
       /\ (req'[r].kind = "getResponse" /\ Called(req'[r], "GenerateResponse"))
            => WrittenTogether(req'[r])
       /\ WritesSessionField(r) => (sessionLock = r \/ sessionLock' = r)
       /\ ReadsSessionField(r) => sessionLock = r]_vars

\* ---------------------------------------------------------------------------
\* Request r, a getCommitments, ends its write of the session cache in this step.
EndsCacheWrite(r) ==
  /\ req[r].kind = "getCommitments"
  /\ req[r].pc = "write"
  /\ req'[r].pc = "done"

\* Request r, a getResponse, calls Core.GenerateResponse in this step.
CallsGenerateResponse(r) ==
  /\ req[r].kind = "getResponse"
  /\ req[r].pc = "respond"
  /\ Called(req'[r], "GenerateResponse")

\* C24: the latest getCommitments wins.  A successful getCommitments leaves
\* the user's entry of the session cache holding its commit ID and the first
\* key of its key list, whatever an earlier one wrote; and the commit ID and
\* key ID an authorized getResponse hands to Core.GenerateResponse are the
\* commit ID returned by, and the first key of the key list of, one
\* getCommitments of that user: the one whose write of the entry was the
\* latest when the getResponse read it.
C24_LatestCommitmentsWins ==
  [][\A r \in Reqs :
       /\ EndsCacheWrite(r) =>
            /\ req[r].username \in DOMAIN sessions'
            /\ heap'[sessions'[req[r].username]].LastCommitID = req[r].commitID
            /\ heap'[sessions'[req[r].username]].LastKeyID = req[r].keys[1]
       /\ CallsGenerateResponse(r) =>
            LET q == req'[r]
            IN /\ q.commitID \in DOMAIN commitBy
               /\ commitBy[q.commitID].username = q.username
               /\ commitBy[q.commitID].key = q.keyID]_vars

\* ---------------------------------------------------------------------------
\* The session cache is written or swept in this step.
CacheChanges == sessions' # sessions \/ heap' # heap

\* C25: overwriting or sweeping an entry of the session cache does not touch
\* the commitment store.  No step that writes or sweeps the cache changes the
\* store; a commitment leaves the store only in the step in which a
\* getResponse hands its commit ID to Core.GenerateResponse; so the commit ID
\* of a getCommitments that lost the cache, or whose entry was swept, stays
\* stored until it is consumed.
C25_CacheLeavesCommitmentStore ==
  [][/\ CacheChanges => UNCHANGED <<commitments, commitIDs>>
     /\ \A id \in DOMAIN commitments :
          id \notin DOMAIN commitments' =>
            \E r \in Reqs : CallsGenerateResponse(r) /\ req'[r].commitID = id]_vars

\* Two getCommitments of u1 have raced (the one with the earlier commit ID
\* wrote the entry last), the sweeper has since dropped the entry, and both
\* commitments are still in the store.
C25_Witness ==
  /\ DOMAIN commitments = {1, 2}
  /\ commitBy[1].username = "u1" /\ commitBy[2].username = "u1"
  /\ DOMAIN sessions = {}
  /\ Len(heap) = 1
  /\ heap[1].LastCommitID = 1
  /\ \A r \in Reqs : req[r].pc = "idle"

\* ---------------------------------------------------------------------------
\* Request r is inside a call of the core that reads trustedKeys in this step:
\* Core.GenerateCommitments past the validation of the JWT (every key of the
\* list is looked up), or Core.GenerateResponse past the JWT, the commitment
\* and the decryption of the blob (the key ID is looked up).
ReadsTrustedKeys(r) ==
  \/ /\ req[r].pc = "idle"
     /\ req'[r].kind = "getCommitments"
     /\ Called(req'[r], "GenerateCommitments")
     /\ req'[r].reply.message # "InvalidJWT"
  \/ /\ CallsGenerateResponse(r)
     /\ req'[r].reply.message \notin {"InvalidJWT", "InvalidCommit", "InvalidKey"}

\* C26: the trusted-key table is guarded against the reload path.  No
\* request handler reads the core's trusted-key table while the update
\* listener of the configuration (LoadIdemixKeys calling
\* DangerousAddTrustedPublicKey) is writing it, and the runtime never aborts
\* the process over the map.
C26_TrustedKeysGuarded ==
  [][\A r \in Reqs :
       /\ ReadsTrustedKeys(r) => reload = ""
       /\ req'[r].pc # "fatal"]_vars

\* ---------------------------------------------------------------------------
\* The core answered the request's pin check with an error that is neither
\* InvalidPin nor PinTooLong: the pin was the user's, the new pin short
\* enough, and the request went no further than the call of the core.
CoreFailed(q) ==
  /\ Called(q, "ValidatePin") \/ Called(q, "ChangePin")
  /\ q.pin = q.truePin
  /\ Len(q.newPin) <= MaxPinLen
  /\ ~Called(q, "ClearPincheck") /\ ~Called(q, "ClearPincheck:error")

\* A store or the core failed the pin request under way.
PinRequestFailed(q) ==
  \/ q.reserved = "error"
  \/ CoreFailed(q)
  \/ Called(q, "UpdateUser:error")

\* C27: store and crypto failures surface as 500.  A verifyPin or changePin
\* in which ReservePincheck failed with a store error, or the core failed
\* with an error other than InvalidPin and PinTooLong, or UpdateUser failed,
\* is answered 500 Internal, never 200 with a status body.
C27_FailuresSurfaceAs500 ==
  \A r \in Reqs :
    LET q == req[r]
    IN (q.pc = "done" /\ q.kind \in PinKinds /\ PinRequestFailed(q))
         => q.reply.code = "Internal"

\* ---------------------------------------------------------------------------
\* A verifyPin whose reservation was allowed and whose pin the core accepted.
PinAccepted(q) ==
  /\ q.kind = "verifyPin"
  /\ q.pc = "done"
  /\ q.reserved = "allowed"
  /\ q.pin = q.truePin
  /\ Called(q, "ClearPincheck") \/ Called(q, "ClearPincheck:error")

\* A getResponse that got as far as doGenerateResponses.
Responding(q) ==
  /\ q.kind = "getResponse"
  /\ q.pc = "done"
  /\ Called(q, "LastKeyID")

\* C28 as the spec has it: none of ClearPincheck, SetSeen and AddLog is
\* surfaced.  An accepted verifyPin answers success with the JWT, and a
\* getResponse goes on to the core, whichever of them failed.
C28_BookkeepingNotSurfacedAsStated ==
  \A r \in Reqs :
    LET q == req[r]
    IN /\ PinAccepted(q) => (q.reply.status = "success" /\ q.reply.jwt # NoJWT)
       /\ Responding(q) => Called(q, "GenerateResponse")

\* C28: the bookkeeping that is not surfaced is ClearPincheck and SetSeen.
\* An accepted verifyPin answers success with the JWT even if ClearPincheck
\* or SetSeen failed, and 500 Internal if AddLog(PinCheckSuccess) failed; a
\* getResponse goes on to the core even if SetSeen failed, and is answered
\* 500 Internal without a call of the core if AddLog(IrmaSession) failed.
C28_BookkeepingNotSurfaced ==
  \A r \in Reqs :
    LET q == req[r]
    IN /\ PinAccepted(q) =>
            IF Called(q, AddLog("PinCheckSuccess", FALSE))
            THEN q.reply = ErrorReply("Internal", "AddLog")
            ELSE q.reply.code = "ok" /\ q.reply.status = "success" /\ q.reply.jwt # NoJWT
       /\ Responding(q) =>
            IF Called(q, AddLog("IrmaSession", FALSE))
            THEN q.reply = ErrorReply("Internal", "AddLog") /\ ~Called(q, "GenerateResponse")
            ELSE Called(q, "GenerateResponse")

\* A verifyPin answered success with its JWT although both ClearPincheck and
\* SetSeen failed.
C28_Witness ==
  \E r \in Reqs :
    /\ PinAccepted(req[r])
    /\ Called(req[r], "ClearPincheck:error")
    /\ Called(req[r], "SetSeen:error")
    /\ req[r].reply.status = "success"
    /\ req[r].reply.jwt # NoJWT

\* ---------------------------------------------------------------------------
\* The place of the first call of one of the names in the calls of a
\* request, 0 when it made none.
FirstCall(q, names) ==
  LET at == {i \in 1 .. Len(q.calls) : q.calls[i] \in names}
  IN IF at = {} THEN 0 ELSE CHOOSE i \in at : \A j \in at : i <= j

\* C29: the activity is recorded before the response is computed.  In every
\* getResponse that calls Core.GenerateResponse, SetSeen and then
\* AddLog(IrmaSession) were called before, in the same request, and the log
\* call succeeded; so a getResponse whose commitment turns out to be invalid
\* has its IrmaSession entry too.
C29_ActivityBeforeResponse ==
  \A r \in Reqs :
    LET q == req[r]
        seen == FirstCall(q, {"SetSeen", "SetSeen:error"})
        log == FirstCall(q, {AddLog("IrmaSession", TRUE)})
        core == FirstCall(q, {"GenerateResponse"})
    IN /\ (q.kind = "getResponse" /\ core > 0) =>
            (0 < seen /\ seen < log /\ log < core)
       /\ (q.kind = "getResponse" /\ q.reply.message = "InvalidCommit") => log > 0

\* A getResponse answered with the core's invalid-commitment error (the
\* commitment was consumed by an earlier getResponse), its IrmaSession entry
\* logged before the core was called.
C29_Witness ==
  \E r \in Reqs :
    /\ req[r].kind = "getResponse"
    /\ req[r].pc = "done"
    /\ req[r].reply.message = "InvalidCommit"
    /\ FirstCall(req[r], {AddLog("IrmaSession", TRUE)}) > 0
    /\ FirstCall(req[r], {AddLog("IrmaSession", TRUE)})
         < FirstCall(req[r], {"GenerateResponse"})

\* ---------------------------------------------------------------------------
\* The steps of a registration in the order of doRegistration, for a request
\* with the email field of q under the mail server configured.
RegistrationSteps(q) ==
  <<"GenerateKeyshareSecret", "NewUser">> \o
  (IF q.email # <<>> /\ q.email # <<"">> /\ emailServer # ""
   THEN <<"AddEmailVerification", "SendHTMLMail">> ELSE <<>>) \o
  <<"StartSession">>

\* The calls of a request without the returns of sendRegistrationEmail.
StepsTaken(q) ==
  SelectSeq(q.calls, LAMBDA c : c \notin {"sendRegistrationEmail",
                                          "sendRegistrationEmail:error"})

\* Call c is a failure of step s.
FailureOf(c, s) ==
  \/ c \in {s \o ":error", s \o ":PinTooLong", s \o ":Random"}
  \/ c = "Execute:error" /\ s = "SendHTMLMail"

\* Request r, a registration with a body that parses, runs in this step.
Registers(r) ==
  /\ req[r].pc = "idle"
  /\ req'[r].kind = "register"
  /\ req'[r].body = "ok"

\* C30: the order of the steps of a registration.  The steps run in the order
\* GenerateKeyshareSecret, NewUser, then AddEmailVerification and the sending
\* of the mail (only for a request with an email that is not empty, under a
\* configured mail server), then StartSession, each only if every step
\* before it succeeded; a registration that succeeds has made every step,
\* has created one row of the user store, that of the generated username,
\* and has started one issuance session, whose keyshare attribute is that
\* username; one that fails has started none.
C30_RegistrationStepOrder ==
  [][\A r \in Reqs : Registers(r) =>
       LET q == req'[r]
           full == RegistrationSteps(q)
           taken == StepsTaken(q)
           n == Len(taken)
           made == {u \in DOMAIN db : ~db[u].exists /\ db'[u].exists}
       IN /\ 1 <= n /\ n <= Len(full)
          /\ \A i \in 1 .. n - 1 : taken[i] = full[i]
          /\ taken[n] = full[n] \/ FailureOf(taken[n], full[n])
          /\ taken[n] = full[n] => n = Len(full)
          /\ q.reply.code = "ok" <=> taken = full
          /\ q.reply.code = "ok" =>
               /\ made = {q.username}
               /\ \A u \in DOMAIN db \ made : db'[u] = db[u]
               /\ q.issuing = q.username
          /\ q.reply.code # "ok" => q.issuing = ""
          /\ Cardinality(made) <= 1]_vars

\* A registration with an email address under a configured mail server has
\* succeeded: the row is stored, the verification mail sent, the session
\* started for the generated username.
C30_Witness ==
  \E r \in Reqs :
    /\ req[r].kind = "register"
    /\ req[r].pc = "done"
    /\ req[r].email = <<"a@b">>
    /\ emailServer = "smtp"
    /\ req[r].reply.code = "ok"
    /\ req[r].calls = <<"GenerateKeyshareSecret", "NewUser", "AddEmailVerification",
                        "SendHTMLMail", "sendRegistrationEmail", "StartSession">>
    /\ db[req[r].username].exists
    /\ req[r].issuing = req[r].username

\* ---------------------------------------------------------------------------
\* C33: the key ring invariant.  After NewKeyshareCore and any sequence of
\* DangerousAddDecryptionKey calls, whatever their key IDs, the current write
\* key is in the key ring under its own ID: decryptionKeys[decryptionKeyID] =
\* decryptionKey, so a blob the core encrypts now is one it can decrypt.
C33_KeyRingInvariant ==
  /\ decryptionKeyID \in DOMAIN decryptionKeys
  /\ decryptionKeys[decryptionKeyID] = decryptionKey
  /\ \A pin \in Pins : CanDecrypt(Encrypt(pin, 0, 0))

\* ---------------------------------------------------------------------------
\* A step of a changePin request: it enters a handler step or moves on in one.
ChangePinStep(r) == req'[r] # req[r] /\ req'[r].kind = "changePin"

\* The changePin request answers status "success" with this step.
ChangePinSucceeds(r) ==
  /\ req'[r].pc = "done"
  /\ req'[r].reply.code = "ok"
  /\ req'[r].reply.status = "success"

\* C34: a failed changePin leaves the stored secret untouched.  No step of a
\* changePin request changes a blob of the user store, except the step that
\* answers status "success", and that one changes only the blob of the
\* request's user: after a refused reservation, a wrong old pin, PinTooLong
\* or another error of the core, or a failure of the store, every row holds
\* the blob it held before.
C34_FailedChangePinKeepsBlob ==
  [][\A r \in Reqs : ChangePinStep(r) =>
       \A u \in DOMAIN db :
         db'[u].coredata # db[u].coredata =>
           ChangePinSucceeds(r) /\ u = req'[r].username]_vars

\* A changePin whose ChangePin succeeded and whose UpdateUser failed: the
\* request holds the new blob, the store still the old one, the reply is 500.
C34_Witness ==
  \E r \in Reqs :
    /\ req[r].kind = "changePin"
    /\ req[r].pc = "done"
    /\ req[r].reply.code = "Internal"
    /\ req[r].calls[Len(req[r].calls)] = "UpdateUser:error"
    /\ req[r].blob.pinHash = Hash(req[r].newPin)
    /\ db[req[r].username].coredata.pinHash = Hash(req[r].pin)
    /\ db[req[r].username].coredata # req[r].blob

\* ---------------------------------------------------------------------------
\* C35: a failed registration leaves no account behind.  Whenever
\* doRegistration returns an error (the client is answered 400 or 500 and
\* gets no QR pointer), the user store holds no row that the request created.
C35_FailedRegistrationLeavesNoAccount ==
  [][\A r \in Reqs :
       Registers(r) /\ req'[r].reply.code # "ok" =>
         \A u \in DOMAIN db : db'[u].exists => db[u].exists]_vars

\* ---------------------------------------------------------------------------
\* The session cache entry of a user: the SessionData s.sessions[username]
\* points to, or none.
CacheEntry(username) ==
  IF username \in DOMAIN sessions THEN <<heap[sessions[username]]>> ELSE <<>>

\* A step of a getCommitments request: it enters the handler or moves on in it.
CommitmentsStep(r) == req'[r] # req[r] /\ req'[r].kind = "getCommitments"

\* The getCommitments request ends with this step without commitments.
CommitmentsRefused(r) == req'[r].pc = "done" /\ req'[r].reply.code # "ok"

\* C36: a failed getCommitments leaves the session cache unchanged.  A
\* getCommitments that does not return commitments (unknown user, malformed
\* body, empty key list, invalid or expired JWT, untrusted key, store failure)
\* ends in the step it started in, before generateCommitments reaches the
\* cache, and that step neither creates nor overwrites an entry nor moves an
\* expiry; and no step of a getCommitments of user u changes the entry of
\* another user.
C36_FailedCommitmentsKeepCache ==
  [][\A r \in Reqs : CommitmentsStep(r) =>
       /\ CommitmentsRefused(r) =>
            /\ req[r].pc = "idle"
            /\ sessions' = sessions
            /\ heap' = heap
       /\ \A u \in UsernameSet \ {req'[r].username} :
            /\ u \in DOMAIN sessions' <=> u \in DOMAIN sessions
            /\ u \in DOMAIN sessions => heap'[sessions'[u]] = heap[sessions[u]]]_vars

\* A getCommitments of a user with a session, presenting the JWT the user
\* holds after it has expired, has been refused by the core; the entry written
\* at time 0 still has the expiry it got then, and the other user has an
\* entry too.
C36_Witness ==
  \E r \in Reqs :
    /\ req[r].kind = "getCommitments"
    /\ req[r].pc = "done"
    /\ req[r].reply.code = "InvalidRequest"
    /\ Called(req[r], "GenerateCommitments")
    /\ IssuedTo(req[r].auth, req[r].username)
    /\ now > req[r].auth.exp
    /\ CacheEntry(req[r].username) # <<>>
    /\ CacheEntry(req[r].username)[1].expiry = SessionExpirySeconds
    /\ \E u \in UsernameSet \ {req[r].username} : CacheEntry(u) # <<>>

\* ---------------------------------------------------------------------------
\* The files saveFile is called for, and a content that is whole: one that
\* json.Unmarshal accepts.
SavedFiles == {updatesFile, skFile}

WholeFile(path, bytes) ==
  IF path = updatesFile THEN UnmarshalUpdates(bytes).err = "nil"
  ELSE UnmarshalSecretKey(bytes).err = "nil"

\* C31: atomic file save.  At every point during and after saveFile(filepath,
\* content), also when writing the temp file or the rename fails, the file at
\* filepath holds its complete previous content (or is absent as before) or
\* the complete new content, never a part of it; after a return without error
\* it holds exactly content.
C31_AtomicFileSave ==
  /\ save.pc # "idle" =>
       /\ FileOf(save.filepath) \in {save.old, <<save.content>>}
       /\ save.pc = "returned" /\ save.err = "nil" =>
            FileOf(save.filepath) = <<save.content>>
       /\ save.pc # "returned" => FileOf(save.filepath) = save.old
  /\ \A path \in SavedFiles \cap DOMAIN files : WholeFile(path, files[path])

\* saveFile has returned the error of a write that stopped short: the temp
\* file holds a part of the new content, the updates file its previous
\* content, which is another one.
C31_Witness ==
  /\ save.pc = "returned"
  /\ save.err = "WriteFile"
  /\ save.filepath = updatesFile
  /\ save.old # <<>>
  /\ save.old # <<save.content>>
  /\ FileOf(updatesFile) = save.old
  /\ save.tempfilename \in DOMAIN files
  /\ Len(files[save.tempfilename]) \in 1 .. Len(save.content) - 1

\* ---------------------------------------------------------------------------
\* update has returned to NewCredentialManager in this start of the manager.
UpdateReturned == cm.pc \in {"loadSecretKey", "storeSecretKey", "ready"}

\* C32: credential-manager updates run at most once.  Across the starts of
\* the manager on one storage every function credentialManagerUpdates[i] is
\* executed at most once; after update() has returned, the list recorded in
\* the updates file has one entry for each update function, the entries of
\* cm.updates, and that is what the next start reads.
C32_UpdatesRunAtMostOnce ==
  /\ \A i \in UpdateNumbers : executed[i] <= 1
  /\ UpdateReturned =>
       /\ Len(cm.updates) = NumUpdates
       /\ \A k \in 1 .. NumUpdates : cm.updates[k].Number = k - 1
       /\ FileOf(updatesFile) = <<MarshalUpdates(cm.updates)>>

\* ---------------------------------------------------------------------------
\* The step starts the handler of the session with requestor token t.
HandlerInvoked(t) == t \in DOMAIN invoked /\ invoked'[t] > invoked[t]

\* C37: the session result handler runs at most once and is released.  For
\* every session started with a handler, the handler is started at most once,
\* only by the client message that moves the session to a finished status,
\* and once it has been started the handlers map holds no entry for the
\* session.
C37_HandlerOnceAndReleased ==
  [][\A t \in DOMAIN invoked' :
       /\ invoked'[t] <= 1
       /\ HandlerInvoked(t) =>
            /\ ~Finished(irmaSessions[t].status)
            /\ Finished(irmaSessions'[t].status)
       /\ invoked'[t] >= 1 => t \notin DOMAIN handlers']_vars

====
